---- MODULE Spec2Model ----
(***************************************************************************)
(* Verification model of the encrypted-link downloader, utils/mega.py.     *)
(*                                                                         *)
(* Specifications over disjoint groups of variables:                       *)
(*   SpecKey    - _derive_key_iv_from_k on bounded key material            *)
(*   SpecStream - the streaming decrypt/write/progress loop of one file    *)
(*   SpecFolder - download_folder: link parsing, listing, tree resolution  *)
(*   SpecDelete - utils/google_drive.py, delete_file_after_delay           *)
(*   SpecProgress - utils/progress.py, the console renderer                *)
(*   SpecPurge  - utils/google_drive.py, delete_folder_after_delay         *)
(***************************************************************************)
EXTENDS Integers, Sequences, FiniteSets, TLC

VARIABLES
    \* ---- key derivation ----
    k_a32,      \* the key material handed to _derive_key_iv_from_k
    kpc,        \* "call" before the function ran, "done" after
    kres,       \* its outcome: a returned (key, iv) or the exception raised
    \* ---- one file transfer (download_file; the same loop runs per file
    \*      in download_folder) ----
    s_key,      \* key_bytes handed to AES.new
    s_iv,       \* iv8, the CTR nonce
    s_stream,   \* the body bytes the media server has to deliver
    s_size,     \* the size the metadata API declared (resp["s"])
    s_pc,       \* position in the handler
    s_off,      \* body bytes received so far
    s_cpos,     \* keystream position inside the cipher object
    s_file,     \* the destination file: [exists, data]
    s_downloaded, \* the local `downloaded`
    s_empty,    \* empty chunks iter_content has yielded
    s_events,   \* the events handed to _emit, in order
    s_swallowed, \* TRUE once _emit has swallowed an exception of a callback
    s_exc,      \* the exception the call ended with, "" if none
    \* ---- download_folder ----
    f_url,      \* folder_url, by the features the code tests
    f_nodes,    \* the node list the listing request answers with (resp["f"])
    f_pc,       \* position in the handler
    f_shared,   \* len(shared_key_bytes)
    f_target,   \* target_subfolder, "" for None
    f_by_h,     \* by_h: id -> node
    f_names,    \* names: id -> decrypted name
    f_allowed,  \* allowed: [some, set], some = FALSE for None
    f_i,        \* index of the node the download loop is at
    f_cur,      \* the file in transfer: [h, rel] and the key and nonce of its cipher
    f_item_idx, \* item_idx
    f_results,  \* results, each the path below out_dir as its segments
    f_events,   \* the events handed to _emit, in order
    f_calls,    \* the network calls made, in order
    f_exc,      \* the exception the call ended with: [exc, at], exc = "" if none
    \* ---- GoogleDriveManager.delete_file_after_delay ----
    d_delay,    \* delay_seconds
    d_caller,   \* the calling thread: "call", "returned" or "exited"
    d_work,     \* statements the caller has run since the call returned
    d_task,     \* the background thread: "none", "sleep", "attempt", "pause",
                \* "done", or "killed" (a daemon thread at interpreter exit)
    d_i,        \* the loop variable i of the task
    d_now,      \* the clock, in seconds
    d_start,    \* the time of the call
    d_wake,     \* the time the running time.sleep ends
    d_late,     \* seconds the task has been runnable without running
    d_log,      \* the delete requests executed: [at, ok], in order
    \* ---- ConsoleProgress (utils/progress.py) ----
    c_now,      \* time.time(), in milliseconds
    c_last_flush, \* self._last_flush
    c_last_len, \* self._last_len
    c_n,        \* calls of the renderer so far
    c_u,        \* the update of the last call
    c_out,      \* what the last call wrote to stdout: [written, cols, pad, nl]
    \* ---- GoogleDriveManager.delete_folder_after_delay: the task ----
    t_pc,       \* position in the task
    t_pass,     \* the pass of `for _ in range(3)`, from 1
    t_page,     \* pages listed in this pass
    t_items,    \* items of the page still to go through: "id" or "noid"
    t_page_token, \* whether the page named a next page
    t_any_deleted, \* any_deleted
    t_i,        \* i of the folder-delete loop
    t_tries,    \* delete requests made for the folder itself
    t_ok,       \* TRUE once the folder's delete succeeded
    t_child_failed, \* TRUE once a child's delete raised
    t_list_failed,  \* TRUE once a listing raised
    t_last      \* the last request: [op, ok]

keyVars == <<k_a32, kpc, kres>>
streamVars == <<s_key, s_iv, s_stream, s_size, s_pc, s_off, s_cpos, s_file,
                s_downloaded, s_empty, s_events, s_swallowed, s_exc>>
folderVars == <<f_url, f_nodes, f_pc, f_shared, f_target, f_by_h, f_names,
                f_allowed, f_i, f_cur, f_item_idx, f_results, f_events, f_calls, f_exc>>
deleteVars == <<d_delay, d_caller, d_work, d_task, d_i, d_now, d_start, d_wake,
                d_late, d_log>>
progressVars == <<c_now, c_last_flush, c_last_len, c_n, c_u, c_out>>
purgeVars == <<t_pc, t_pass, t_page, t_items, t_page_token, t_any_deleted, t_i,
               t_tries, t_ok, t_child_failed, t_list_failed, t_last>>
vars == <<keyVars, streamVars, folderVars, deleteVars, progressVars, purgeVars>>

----------------------------------------------------------------------------
(* Bytes and 32-bit words                                                  *)

Min(a, b) == IF a <= b THEN a ELSE b
Max(a, b) == IF a >= b THEN a ELSE b

\* Python's ^ on non-negative integers.
RECURSIVE Xor(_, _)
Xor(a, b) ==
    IF a = 0 /\ b = 0 THEN 0
    ELSE (((a % 2) + (b % 2)) % 2) + 2 * Xor(a \div 2, b \div 2)

\* Python's s[lo:hi] for 0 <= lo <= hi (0-based, end exclusive, clipped).
PySlice(s, lo, hi) ==
    IF Min(hi, Len(s)) <= lo THEN <<>> ELSE SubSeq(s, lo + 1, Min(hi, Len(s)))

\* b"\0" * n
Zeros(n) == [i \in 1..n |-> 0]

\* A 32-bit unsigned word is held as its four base-256 digits, most
\* significant first (TLC's integers stop at 2^31 - 1): the word
\* d1*2^24 + d2*2^16 + d3*2^8 + d4 is <<d1, d2, d3, d4>>.

\* x.to_bytes(4, "big"): the digits, most significant first.
WordToBytes(x) == <<x[1], x[2], x[3], x[4]>>

\* int.from_bytes(b[i:i+4], "big")
WordFromBytes(b) == <<b[1], b[2], b[3], b[4]>>

\* x ^ y on two words: bitwise, hence digit by digit.
WordOr(x, y)  == [d \in 1..4 |-> Max(x[d], y[d])]
WordXor(x, y) == [d \in 1..4 |-> Xor(x[d], y[d])]

\* _a32_to_bytes: the big-endian bytes of the words, concatenated.
a32_to_bytes(a) ==
    [i \in 1..(4 * Len(a)) |-> WordToBytes(a[((i - 1) \div 4) + 1])[((i - 1) % 4) + 1]]

\* _bytes_to_a32: zero-pad to a multiple of 4, then big-endian words.
bytes_to_a32(b) ==
    LET pad == IF (Len(b) % 4) = 0 THEN 0 ELSE 4 - (Len(b) % 4)
        bb  == b \o Zeros(pad)
    IN [i \in 1..(Len(bb) \div 4) |-> WordFromBytes(SubSeq(bb, 4*i - 3, 4*i))]

\* _xor_a32: zip() stops at the shorter list.
xor_a32_or(a, b) == [i \in 1..Min(Len(a), Len(b)) |-> WordOr(a[i], b[i])]
xor_a32(a, b) == [i \in 1..Min(Len(a), Len(b)) |-> WordXor(a[i], b[i])]

----------------------------------------------------------------------------
(* Key derivation                                                          *)

Returned(key, iv) == [kind |-> "return", exc |-> "", key |-> key, iv |-> iv]
Raised(exc)       == [kind |-> "raise", exc |-> exc, key |-> <<>>, iv |-> <<>>]

\* _derive_key_iv_from_k, statement by statement.  The local `key` is bound
\* only inside the two ifs; the iv assignment and the return follow the
\* second if at function level, and the raise after the return is dead code.
derive_key_iv_from_k(k) ==
    IF Len(k) = 4
    THEN Returned(a32_to_bytes(k), Zeros(8))
    ELSE LET keyBound == Len(k) >= 8
             key == IF keyBound
                    THEN a32_to_bytes(xor_a32(PySlice(k, 0, 4), PySlice(k, 4, 8)))
                    ELSE <<>>
             iv  == a32_to_bytes(PySlice(k, 4, 6))
         IN IF keyBound THEN Returned(key, iv)
            ELSE Raised("UnboundLocalError")   \* `return key, iv` reads the unbound local

MaxWords == 9
WordVals == {<<1, 2, 3, 4>>, <<255, 254, 253, 252>>}   \* 0x01020304, 0xFFFEFDFC
KeyMaterials == UNION {[1..n -> WordVals] : n \in 0..MaxWords}

NoResult == [kind |-> "none", exc |-> "", key |-> <<>>, iv |-> <<>>]

KeyIdle ==
    /\ k_a32 = <<>>
    /\ kpc = "idle"
    /\ kres = NoResult

KeyInit ==
    /\ k_a32 \in KeyMaterials
    /\ kpc = "call"
    /\ kres = NoResult

DeriveKeyIv ==
    /\ kpc = "call"
    /\ kres' = derive_key_iv_from_k(k_a32)
    /\ kpc' = "done"
    /\ UNCHANGED k_a32

----------------------------------------------------------------------------
(* The streaming decrypting downloader                                     *)

RECURSIVE SumSeq(_)
SumSeq(q) == IF q = <<>> THEN 0 ELSE Head(q) + SumSeq(Tail(q))

\* The cipher's block length.  AES has 16-byte blocks; the model scales the
\* block down so that short bodies cross block boundaries.
BlockLen == 2

\* Byte `off` of the keystream block E_key(nonce || ctr) of CTR mode.  AES is
\* the library's; it is modelled as a fixed function of (key, nonce, ctr)
\* that separates the blocks and the offsets the model reaches.
AesCtrBlockByte(key, nonce, ctr, off) ==
    (SumSeq(key) + 3 * SumSeq(nonce) + 7 * ctr + 13 * off + 1) % 256

\* Keystream byte at byte position pos (initial_value=0: block 0 first).
KeystreamByte(key, nonce, pos) ==
    AesCtrBlockByte(key, nonce, pos \div BlockLen, pos % BlockLen)

\* cipher.decrypt(chunk) on the cipher object whose keystream position is
\* cpos: the bytes XOR the next len(chunk) keystream bytes.
CipherDecryptReset(key, nonce, cpos, chunk) ==
    [i \in 1..Len(chunk) |-> Xor(chunk[i], KeystreamByte(key, nonce, i - 1))]
CipherDecrypt(key, nonce, cpos, chunk) ==
    [i \in 1..Len(chunk) |-> Xor(chunk[i], KeystreamByte(key, nonce, cpos + i - 1))]

\* A percent value: None, or the exact ratio num/den of the float.
PctNone      == [known |-> FALSE, num |-> 0, den |-> 1]
Pct(num, den) == [known |-> TRUE, num |-> num, den |-> den]

\* The ProgressUpdate _emit builds: downloaded_bytes is `downloaded or 0`.
\* dt is the interval, in milliseconds, between the event and the previous
\* reading of the clock (now - sp.last_ts), which the event's speed is
\* computed over; the starting and done events read no clock (dt 0).
Event(stage, total, downloaded, percent, dt) ==
    [stage |-> stage, total |-> total, downloaded |-> downloaded,
     percent |-> percent, dt |-> dt]

\* pct = (downloaded / size * 100.0) if size else None
DownloadingPct(downloaded, size) ==
    IF size # 0 THEN Pct(downloaded * 100, size) ELSE PctNone

\* a / b rounded to the nearest integer (the inputs met have no ties).
RoundDiv(a, b) == (2 * a + b) \div (2 * b)

\* The percent column of a progress line: absent, or the text of
\* f"{x:5.1f}%" given by x in tenths of a percent.
NoPctText        == [shown |-> FALSE, tenths |-> 0]
PctText(tenths)  == [shown |-> TRUE, tenths |-> tenths]

\* Whether a percent value is a number >= 100.0.
AtLeast100(percent) == percent.known /\ percent.num >= 100 * percent.den

\* _format_progress_line of utils/mega.py, by its percent column and its
\* bytes column (left / right, right 0 when only left is shown).  It takes
\* no stage.
format_progress_line(percent, downloaded, total) ==
    [pct   |-> IF ~percent.known THEN NoPctText
               ELSE IF AtLeast100(percent) THEN PctText(1000)
               ELSE PctText(RoundDiv(10 * percent.num, percent.den)),
     left  |-> IF AtLeast100(percent) /\ total # 0 THEN total ELSE downloaded,
     right |-> total]

\* What a progress callback does with one event: it is not set (None), it
\* returns, or it raises an Exception.
CallbackOutcomes == {"absent", "returns", "raises"}

\* _emit with the guards removed: an exception of a callback propagates.
emit_unguarded(progress, progress_line) ==
    [raised    |-> progress = "raises" \/ progress_line = "raises",
     swallowed |-> FALSE]

\* _emit: the structured callback, then the line callback, each inside
\* `try: ... except Exception: pass`.  It always returns.
emit(progress, progress_line) ==
    [raised    |-> FALSE,
     swallowed |-> progress = "raises" \/ progress_line = "raises"]

\* The handler after a call of _emit: it goes on to `next`, or the exception
\* that came out of _emit leaves the handler.
AfterEmit(r, next) ==
    /\ s_swallowed' = (s_swallowed \/ r.swallowed)
    /\ IF r.raised
       THEN s_pc' = "raised" /\ s_exc' = "CallbackError"
       ELSE s_pc' = next /\ UNCHANGED s_exc

MaxStream == 4     \* longest body
MaxChunk  == 2     \* most bytes one iter_content chunk carries (chunk_size)
MaxEmpty  == 1     \* most empty chunks counted in one transfer
BodyBytes == <<5, 250>>
\* The bodies: of every length up to MaxStream, with the two byte values
\* alternating from either of them.
Bodies    == {[i \in 1..n |-> BodyBytes[((i + b) % 2) + 1]] : n \in 0..MaxStream, b \in 0..1}
LinkKeys  == {<< <<1, 2, 3, 4>>, <<1, 2, 3, 4>>, <<0, 0, 0, 9>>, <<255, 254, 253, 252>> >>,
              << <<1, 2, 3, 4>>, <<0, 0, 0, 0>>, <<7, 7, 7, 7>>, <<1, 1, 1, 1>>,
                 <<0, 0, 0, 5>>, <<0, 0, 6, 0>>, <<9, 9, 9, 9>>, <<3, 3, 3, 3>> >>}

\* The time, in milliseconds, that may pass between two readings of the
\* clock in the loop: none that the clock resolves, or a full 50 ms.
ElapsedMs == {0, 50}

NoFile == [exists |-> FALSE, data |-> <<>>]

StreamIdle ==
    /\ s_key = <<>> /\ s_iv = <<>> /\ s_stream = <<>> /\ s_size = 0
    /\ s_pc = "idle" /\ s_off = 0 /\ s_cpos = 0 /\ s_file = NoFile
    /\ s_downloaded = 0 /\ s_empty = 0 /\ s_events = <<>> /\ s_swallowed = FALSE
    /\ s_exc = ""

\* download_file up to out_path: the link parsed, the key derived, the
\* metadata answer {g, s} received.
StreamInit ==
    /\ \E k \in LinkKeys :
         /\ s_key = derive_key_iv_from_k(k).key
         /\ s_iv = derive_key_iv_from_k(k).iv
    /\ s_stream \in Bodies
    /\ s_size \in 0..MaxStream
    /\ s_pc = "meta"
    /\ s_off = 0 /\ s_cpos = 0 /\ s_file = NoFile
    /\ s_downloaded = 0 /\ s_empty = 0 /\ s_events = <<>> /\ s_swallowed = FALSE
    /\ s_exc = ""

\* The handler goes on to the fetch without a starting event.
EmitStartingLate ==
    /\ s_pc = "meta"
    /\ s_cpos' = 0
    /\ s_downloaded' = 0
    /\ s_pc' = "connect"
    /\ UNCHANGED <<s_key, s_iv, s_stream, s_size, s_off, s_file, s_empty, s_events,
                   s_swallowed, s_exc>>

\* The starting event, then AES.new and the counters.
EmitStarting ==
    /\ s_pc = "meta"
    /\ s_events' = Append(s_events, Event("starting", s_size, 0, Pct(0, 1), 0))
    /\ \E progress, progress_line \in CallbackOutcomes :
         AfterEmit(emit(progress, progress_line), "connect")
    /\ s_cpos' = 0
    /\ s_downloaded' = 0
    /\ UNCHANGED <<s_key, s_iv, s_stream, s_size, s_off, s_file, s_empty>>

\* requests.get and raise_for_status succeed; open(out_path, "wb").
OpenStream ==
    /\ s_pc = "connect"
    /\ s_file' = [exists |-> TRUE, data |-> <<>>]
    /\ s_pc' = "loop"
    /\ UNCHANGED <<s_key, s_iv, s_stream, s_size, s_off, s_cpos, s_downloaded,
                   s_empty, s_events, s_swallowed, s_exc>>

\* One non-empty chunk: decrypt, write, count, read the clock, emit
\* `downloading`.
RecvChunk ==
    /\ s_pc = "loop"
    /\ \E n \in 1..MaxChunk, dt \in ElapsedMs :
         /\ s_off + n <= Len(s_stream)
         /\ LET chunk == SubSeq(s_stream, s_off + 1, s_off + n)
                dec   == CipherDecrypt(s_key, s_iv, s_cpos, chunk)
                dl    == s_downloaded + Len(dec)
            IN /\ s_file' = [s_file EXCEPT !.data = @ \o dec]
               /\ s_cpos' = s_cpos + Len(chunk)
               /\ s_downloaded' = dl
               /\ s_events' = Append(s_events,
                      Event("downloading", s_size, dl, DownloadingPct(dl, s_size), dt))
               /\ s_off' = s_off + n
    /\ \E progress, progress_line \in CallbackOutcomes :
         AfterEmit(emit(progress, progress_line), "loop")
    /\ UNCHANGED <<s_key, s_iv, s_stream, s_size, s_empty>>

\* An empty chunk: `if not chunk: continue`.
RecvEmptyChunk ==
    /\ s_pc = "loop"
    /\ s_empty < MaxEmpty
    /\ s_empty' = s_empty + 1
    /\ UNCHANGED <<s_key, s_iv, s_stream, s_size, s_pc, s_off, s_cpos, s_file,
                   s_downloaded, s_events, s_swallowed, s_exc>>

\* The loop ends and the path is returned with no done event.
FinishStreamSilent ==
    /\ s_pc = "loop"
    /\ s_off = Len(s_stream)
    /\ s_pc' = "returned"
    /\ UNCHANGED <<s_key, s_iv, s_stream, s_size, s_off, s_cpos, s_file,
                   s_downloaded, s_empty, s_events, s_swallowed, s_exc>>

\* The body is exhausted: the loop and both with-blocks end, the done event
\* is emitted with downloaded=size, and the path is returned.
FinishStream ==
    /\ s_pc = "loop"
    /\ s_off = Len(s_stream)
    /\ s_events' = Append(s_events, Event("done", s_size, s_size, Pct(100, 1), 0))
    /\ \E progress, progress_line \in CallbackOutcomes :
         AfterEmit(emit(progress, progress_line), "returned")
    /\ UNCHANGED <<s_key, s_iv, s_stream, s_size, s_off, s_cpos, s_file,
                   s_downloaded, s_empty>>

\* The failure handler removes the partial file before it re-raises.
TransportFailureCleanup ==
    /\ s_pc \in {"connect", "loop"}
    /\ s_exc' = "NetworkError"
    /\ s_pc' = "raised"
    /\ s_file' = NoFile
    /\ UNCHANGED <<s_key, s_iv, s_stream, s_size, s_off, s_cpos,
                   s_downloaded, s_empty, s_events, s_swallowed>>

\* requests.RequestException from requests.get, raise_for_status or
\* iter_content: re-raised as NetworkError; nothing touches the file.
TransportFailure ==
    /\ s_pc \in {"connect", "loop"}
    /\ s_exc' = "NetworkError"
    /\ s_pc' = "raised"
    /\ UNCHANGED <<s_key, s_iv, s_stream, s_size, s_off, s_cpos, s_file,
                   s_downloaded, s_empty, s_events, s_swallowed>>

----------------------------------------------------------------------------
(* download_folder: link parsing                                           *)

\* A folder URL by what the code tests of it:
\*   isStr   isinstance(folder_url, str)
\*   host    "mega.nz" in folder_url
\*   form    "folder"  mega.nz/folder/<8-char id> at the link position,
\*           "legacyF" mega.nz/#!F!<8-char id>, "none" neither
\*   keySeg  the key segment after the id: "missing", "short" (< 16
\*           characters) or "ok"
\*   b64ok   whether base64.b64decode accepts the padded key segment
\*   kwords  the number of 32-bit words _bytes_to_a32 makes of the decoded key
\*   ids     re.findall(r"/folder/([a-zA-Z0-9_-]{8})", folder_url)
Url(isStr, host, form, keySeg, b64ok, kwords, ids) ==
    [isStr |-> isStr, host |-> host, form |-> form, keySeg |-> keySeg,
     b64ok |-> b64ok, kwords |-> kwords, ids |-> ids]

ParseOk(folder_id, words) == [kind |-> "return", exc |-> "", folder_id |-> folder_id, words |-> words]
ParseRaise(exc)           == [kind |-> "raise", exc |-> exc, folder_id |-> "", words |-> 0]

\* Both patterns of _parse_folder_link demand an id and a key segment of at
\* least 16 characters.
LinkMatchesLax(url) == url.form \in {"folder", "legacyF"}
LinkMatches(url) == url.form \in {"folder", "legacyF"} /\ url.keySeg = "ok"

\* _parse_folder_link; the key is folded to 4 words when it has 8 or more.
parse_folder_link(url) ==
    IF ~LinkMatches(url) THEN ParseRaise("ValidationError")
    ELSE IF ~url.b64ok THEN ParseRaise("binascii.Error")
    ELSE ParseOk("hFolder", IF url.kwords >= 8 THEN 4 ELSE url.kwords)

----------------------------------------------------------------------------
(* download_folder: per-node keys and attributes                           *)

\* A per-node key field n["k"]: isStr (a string at all), b64ok (its last
\* ":" segment base64-decodes), declen (the decoded length in bytes).
KeyBlob(isStr, b64ok, declen) == [isStr |-> isStr, b64ok |-> b64ok, declen |-> declen]

\* An attribute field n["a"]: isStr, b64ok, declen as above, and what the
\* CBC decryption of it holds: plain is
\*   "nomarker"   no MEGA prefix        "badjson"    prefix, unparsable rest
\*   "nonobject"  JSON, not an object   "noname"     object without "n"
\*   "emptyname"  object, "n": ""       "nonstrname" object, "n" not a string
\*   "named"      object, "n": name
AttrBlob(isStr, b64ok, declen, plain, name) ==
    [isStr |-> isStr, b64ok |-> b64ok, declen |-> declen, plain |-> plain, name |-> name]

Node(h, p, t, k, a) == [h |-> h, p |-> p, t |-> t, k |-> k, a |-> a]

\* AES.new accepts keys of 16, 24 and 32 bytes.
AesKeyLenOk(len) == len \in {16, 24, 32}

\* The result of node_key_bytes: None (klen = -1) or klen bytes.
KeyNone       == [kind |-> "return", exc |-> "", klen |-> -1]
KeyBytes(len) == [kind |-> "return", exc |-> "", klen |-> len]
KeyRaise(exc) == [kind |-> "raise", exc |-> exc, klen |-> -1]

\* The body of node_key_bytes without its except clause.
node_key_bytes_try(k, sharedLen) ==
    IF ~k.isStr THEN KeyNone
    ELSE IF ~k.b64ok THEN KeyRaise("binascii.Error")
    ELSE IF ~AesKeyLenOk(sharedLen) THEN KeyRaise("ValueError")
    ELSE IF (k.declen % 16) # 0 THEN KeyRaise("ValueError")
    ELSE IF k.declen = 32 THEN KeyBytes(16)
    ELSE KeyBytes(Min(k.declen, 16))

\* node_key_bytes: any exception of the body becomes None.
node_key_bytes_noexcept(k, sharedLen) == node_key_bytes_try(k, sharedLen)
node_key_bytes(k, sharedLen) ==
    IF node_key_bytes_try(k, sharedLen).kind = "raise" THEN KeyNone
    ELSE node_key_bytes_try(k, sharedLen)

\* `if kb` / `if not kb`: None and b"" are falsy.
Truthy(kb) == kb.kind = "return" /\ kb.klen > 0

\* The bytes AES-ECB decryption makes of a key blob of declen bytes.  AES
\* is the library's; it is modelled as a fixed function whose bytes differ
\* from 0 and from one another across the two halves of a 32-byte blob.
EcbPlain(declen) == [i \in 1..declen |-> (17 * i + 3) % 256]

\* The decrypted blob returned whole.
node_key_whole(dec) == dec

\* The bytes node_key_bytes returns for the decrypted blob dec: the two
\* halves of a 32-byte blob XORed, else dec[:16].
node_key_fold(dec) ==
    IF Len(dec) = 32
    THEN [i \in 1..16 |-> Xor(dec[i], dec[i + 16])]
    ELSE SubSeq(dec, 1, Min(Len(dec), 16))

\* A JSON value by what the callers test: isDict, and its "n" entry
\* (nKind "absent", "str" or "other"; n the string).
JsonVal(isDict, nKind, n) == [isDict |-> isDict, nKind |-> nKind, n |-> n]
EmptyMapping == JsonVal(TRUE, "absent", "")

AttrsReturn(val) == [kind |-> "return", exc |-> "", val |-> val]
AttrsRaise(exc)  == [kind |-> "raise", exc |-> exc, val |-> EmptyMapping]

\* json.loads of the decrypted, stripped payload.
JsonOf(a) ==
    CASE a.plain = "nonobject"  -> JsonVal(FALSE, "absent", "")
      [] a.plain = "noname"     -> JsonVal(TRUE, "absent", "")
      [] a.plain = "emptyname"  -> JsonVal(TRUE, "str", "")
      [] a.plain = "nonstrname" -> JsonVal(TRUE, "other", "")
      [] OTHER                  -> JsonVal(TRUE, "str", a.name)

\* _decrypt_attrs: the decode, AES.new and decrypt run outside the try; only
\* json.loads(dec.decode()) is guarded.
decrypt_attrs(a, klen) ==
    IF ~a.b64ok THEN AttrsRaise("binascii.Error")
    ELSE IF ~AesKeyLenOk(klen) THEN AttrsRaise("ValueError")
    ELSE IF (a.declen % 16) # 0 THEN AttrsRaise("ValueError")
    ELSE IF a.declen = 0 \/ a.plain = "nomarker" THEN AttrsReturn(EmptyMapping)
    ELSE IF a.plain = "badjson" THEN AttrsReturn(EmptyMapping)
    ELSE AttrsReturn(JsonOf(a))

----------------------------------------------------------------------------
(* download_folder: the node tree                                          *)

Last(S) == CHOOSE x \in S : \A y \in S : y <= x

\* by_h: the last node of the listing with each id.
ByH(nodes) ==
    [x \in {nodes[i].h : i \in 1..Len(nodes)} |->
        nodes[Last({i \in 1..Len(nodes) : nodes[i].h = x})]]

\* One pass of the names loop over node n: the exception it raises, or the
\* name it stores ("" when it stores none).
NameStep(n, sharedLen) ==
    LET kb == node_key_bytes(n.k, sharedLen) IN
    IF kb.kind = "raise" THEN [kind |-> "raise", exc |-> kb.exc, nm |-> ""]
    ELSE IF ~(Truthy(kb) /\ n.a.isStr) THEN [kind |-> "return", exc |-> "", nm |-> ""]
    ELSE LET attrs == decrypt_attrs(n.a, kb.klen) IN
         IF attrs.kind = "raise" THEN [kind |-> "raise", exc |-> attrs.exc, nm |-> ""]
         ELSE [kind |-> "return", exc |-> "",
               nm |-> IF attrs.val.isDict /\ attrs.val.nKind = "str" THEN attrs.val.n ELSE ""]

\* The names loop: the first exception, or the names dict.
BuildNames(nodes, sharedLen) ==
    LET raising == {i \in 1..Len(nodes) : NameStep(nodes[i], sharedLen).kind = "raise"}
        named(x) == {i \in 1..Len(nodes) :
                        nodes[i].h = x /\ NameStep(nodes[i], sharedLen).nm # ""}
    IN IF raising # {}
       THEN [kind |-> "raise",
             exc |-> NameStep(nodes[CHOOSE i \in raising : \A j \in raising : i <= j],
                              sharedLen).exc,
             names |-> <<>>]
       ELSE [kind |-> "return", exc |-> "",
             names |-> [x \in {nodes[i].h : i \in 1..Len(nodes)} |->
                           IF named(x) = {} THEN ""
                           ELSE NameStep(nodes[Last(named(x))], sharedLen).nm]]

\* names.get(h, dflt): an id the loop stored no name for has no entry.
NamesGet(names, h, dflt) ==
    IF h \in DOMAIN names /\ names[h] # "" THEN names[h] ELSE dflt

\* The stack walk over children_map from the target: the ids reachable over
\* parent -> child edges (nodes whose h and p are strings).
RECURSIVE ReachFrom(_, _)
ReachFrom(nodes, seen) ==
    LET more == {nodes[i].h : i \in {j \in 1..Len(nodes) :
                                     nodes[j].p # "" /\ nodes[j].p \in seen}}
    IN IF more \subseteq seen THEN seen ELSE ReachFrom(nodes, seen \cup more)

AllowedNone == [some |-> FALSE, set |-> {}]

\* allowed computed whenever a target is given.
AllowedUnguarded(nodes, by_h, target) ==
    IF target # ""
    THEN [some |-> TRUE, set |-> ReachFrom(nodes, {target})]
    ELSE AllowedNone

\* allowed: computed only when the target is an id of the listing.
Allowed(nodes, by_h, target) ==
    IF target # "" /\ target \in DOMAIN by_h
    THEN [some |-> TRUE, set |-> ReachFrom(nodes, {target})]
    ELSE AllowedNone

\* Whether the download loop passes node h on to key decryption.
EligibleAll(allowed, h) == TRUE
Eligible(allowed, h) == ~(allowed.some /\ h \notin allowed.set)

\* The while loop of full_path from node cur with parts collected so far.
\* The loop's control state is cur alone, so coming back to a node already
\* visited means it never ends: diverges = TRUE.
RECURSIVE PathWalk(_, _, _, _, _, _)
PathWalk(cur, parts, seen, by_h, names, target) ==
    IF ~(cur.p \in DOMAIN by_h) THEN [diverges |-> FALSE, parts |-> parts]
    ELSE LET nxt == by_h[cur.p]
             nm  == NamesGet(names, nxt.h, "")
             pts == IF nxt.t = 1 /\ nm # "" THEN Append(parts, nm) ELSE parts
         IN IF nxt.t = 1 /\ target # "" /\ nxt.h = target
            THEN [diverges |-> FALSE, parts |-> pts]
            ELSE IF nxt.h \in seen THEN [diverges |-> TRUE, parts |-> pts]
            ELSE PathWalk(nxt, pts, seen \cup {nxt.h}, by_h, names, target)

Reversed(q) == [i \in 1..Len(q) |-> q[Len(q) + 1 - i]]

\* full_path(h): the collected folder names, outermost first.
full_path_unreversed(h, by_h, names, target) ==
    PathWalk(by_h[h], <<>>, {h}, by_h, names, target)
full_path(h, by_h, names, target) ==
    LET w == PathWalk(by_h[h], <<>>, {h}, by_h, names, target)
    IN [diverges |-> w.diverges, parts |-> Reversed(w.parts)]

\* parts.index(x): the first position of x.
IndexOf(q, x) == CHOOSE i \in 1..Len(q) : q[i] = x /\ \A j \in 1..(i - 1) : q[j] # x

\* The final trim: with the target in the listing and its name among the
\* segments, the path starts at the first segment equal to that name.
TrimAfterTarget(rel, by_h, names, target) ==
    IF target # "" /\ target \in DOMAIN by_h
    THEN LET tn == NamesGet(names, target, "")
         IN IF tn # "" /\ \E i \in 1..Len(rel) : rel[i] = tn
            THEN SubSeq(rel, IndexOf(rel, tn) + 1, Len(rel))
            ELSE rel
    ELSE rel
\* parts.index replaced by the last position of x.
LastIndexOf(q, x) == CHOOSE i \in 1..Len(q) : q[i] = x /\ \A j \in (i + 1)..Len(q) : q[j] # x
TrimToLastTarget(rel, by_h, names, target) ==
    IF target # "" /\ target \in DOMAIN by_h
    THEN LET tn == NamesGet(names, target, "")
         IN IF tn # "" /\ \E i \in 1..Len(rel) : rel[i] = tn
            THEN SubSeq(rel, LastIndexOf(rel, tn), Len(rel))
            ELSE rel
    ELSE rel
TrimToTarget(rel, by_h, names, target) ==
    IF target # "" /\ target \in DOMAIN by_h
    THEN LET tn == NamesGet(names, target, "")
         IN IF tn # "" /\ \E i \in 1..Len(rel) : rel[i] = tn
            THEN SubSeq(rel, IndexOf(rel, tn), Len(rel))
            ELSE rel
    ELSE rel

\* rel of file node h: full_path(h) / names.get(h, h), then the trim.
RelPath(h, by_h, names, target) ==
    TrimToTarget(Append(full_path(h, by_h, names, target).parts, NamesGet(names, h, h)),
                 by_h, names, target)

----------------------------------------------------------------------------
(* download_folder: the handler                                            *)

NoExc == [exc |-> "", at |-> ""]
Exc(exc, at) == [exc |-> exc, at |-> at]

NoCur == [h |-> "", rel |-> <<>>, key |-> <<>>, nonce |-> <<>>]

\* A network call: op "f" (folder listing), "g" (per-file metadata) or
\* "get" (media fetch), and the node it is about.
Call(op, h) == [op |-> op, h |-> h]

\* An event of download_folder: the stage, the filename (the path's
\* segments, <<>> for None) and item_idx (0 for None).
FEvent(stage, filename, item_idx) ==
    [stage |-> stage, filename |-> filename, item_idx |-> item_idx]

FolderIdle ==
    /\ f_url = Url(FALSE, FALSE, "none", "missing", FALSE, 0, <<>>)
    /\ f_nodes = <<>> /\ f_pc = "idle" /\ f_shared = 0 /\ f_target = ""
    /\ f_by_h = <<>> /\ f_names = <<>> /\ f_allowed = AllowedNone /\ f_i = 0
    /\ f_cur = NoCur /\ f_item_idx = 0 /\ f_results = <<>> /\ f_events = <<>>
    /\ f_calls = <<>> /\ f_exc = NoExc

\* The ids and names of the listings the model draws: node i has id
\* NodeIds[i] and, when its name resolves, the name NodeNames[i].
NodeIds   == <<"hr", "hA", "hB", "hf">>
NodeNames == <<"root", "A", "B", "f.txt">>
NodeIx    == 1..Len(NodeIds)

GoodKey(t) == IF t = 0 THEN KeyBlob(TRUE, TRUE, 32) ELSE KeyBlob(TRUE, TRUE, 16)
KeyFaults ==
    {KeyBlob(FALSE, FALSE, 0),      \* no "k" string
     KeyBlob(TRUE, FALSE, 0),       \* not base64
     KeyBlob(TRUE, TRUE, 8),        \* not a whole number of AES blocks
     KeyBlob(TRUE, TRUE, 0)}        \* decodes to nothing
GoodAttr(name) == AttrBlob(TRUE, TRUE, 16, "named", name)
AttrFaults(name) ==
    {AttrBlob(FALSE, FALSE, 0, "nomarker", name),
     AttrBlob(TRUE, FALSE, 0, "nomarker", name),
     AttrBlob(TRUE, TRUE, 8, "nomarker", name),
     AttrBlob(TRUE, TRUE, 0, "nomarker", name)}
    \cup {AttrBlob(TRUE, TRUE, 16, pl, name) :
            pl \in {"nomarker", "badjson", "nonobject", "noname", "emptyname", "nonstrname"}}

\* The tree shapes: the first node is the shared root folder, every other
\* node hangs below an earlier folder.
Shapes ==
    {sh \in [NodeIx -> [p : {""} \cup {NodeIds[j] : j \in NodeIx}, t : {0, 1}]] :
        /\ sh[1].p = "" /\ sh[1].t = 1
        /\ \A i \in NodeIx \ {1} :
             \E j \in 1..(i - 1) : sh[j].t = 1 /\ sh[i].p = NodeIds[j]}

\* The listing of a shape in which every key and name resolves.
CleanListing(sh) ==
    [i \in NodeIx |-> Node(NodeIds[i], sh[i].p, sh[i].t, GoodKey(sh[i].t), GoodAttr(NodeNames[i]))]

\* The listings: a clean one, or one with a single node's key or attribute
\* blob damaged.
Listings ==
    UNION {{CleanListing(sh)}
           \cup {[CleanListing(sh) EXCEPT ![i].k = kf] : i \in NodeIx, kf \in KeyFaults}
           \cup UNION {{[CleanListing(sh) EXCEPT ![i].a = af] : af \in AttrFaults(NodeNames[i])}
                         : i \in NodeIx}
           : sh \in Shapes}

\* root -> A -> B -> f.txt
ChainListing ==
    <<Node("hr", "", 1, GoodKey(1), GoodAttr("root")),
      Node("hA", "hr", 1, GoodKey(1), GoodAttr("A")),
      Node("hB", "hA", 1, GoodKey(1), GoodAttr("B")),
      Node("hf", "hB", 0, GoodKey(0), GoodAttr("f.txt"))>>

\* Listings whose parent pointers form a cycle: A and B name each other as
\* parent, or A names itself; the file is below B or A.
CycleListings ==
    {<<Node("hr", "", 1, GoodKey(1), GoodAttr("root")),
       Node("hA", "hB", 1, GoodKey(1), GoodAttr("A")),
       Node("hB", "hA", 1, GoodKey(1), GoodAttr("B")),
       Node("hf", "hB", 0, GoodKey(0), GoodAttr("f.txt"))>>,
     <<Node("hr", "", 1, GoodKey(1), GoodAttr("root")),
       Node("hA", "hA", 1, GoodKey(1), GoodAttr("A")),
       Node("hB", "hr", 1, GoodKey(1), GoodAttr("B")),
       Node("hf", "hA", 0, GoodKey(0), GoodAttr("f.txt"))>>}

\* Listings with distinct ids in which names repeat: a folder and the file
\* below the folder A carry A's name, or B, its parent and the file below it
\* carry B's name.
SharedNameListings ==
    {<<Node("hr", "", 1, GoodKey(1), GoodAttr("root")),
       Node("hA", "hr", 1, GoodKey(1), GoodAttr("A")),
       Node("hB", "hA", 1, GoodKey(1), GoodAttr("A")),
       Node("hf", "hB", 0, GoodKey(0), GoodAttr("A"))>>,
     <<Node("hr", "", 1, GoodKey(1), GoodAttr("root")),
       Node("hA", "hr", 1, GoodKey(1), GoodAttr("B")),
       Node("hB", "hA", 1, GoodKey(1), GoodAttr("B")),
       Node("hf", "hB", 0, GoodKey(0), GoodAttr("B"))>>}

\* A listing that holds the folder id hB twice: first below A and last
\* below the root, there under A's name; the file is below hB.
RepeatedIdListing ==
    <<Node("hr", "", 1, GoodKey(1), GoodAttr("root")),
      Node("hA", "hr", 1, GoodKey(1), GoodAttr("A")),
      Node("hB", "hA", 1, GoodKey(1), GoodAttr("B")),
      Node("hB", "hr", 1, GoodKey(1), GoodAttr("A")),
      Node("hf", "hB", 0, GoodKey(0), GoodAttr("f.txt"))>>

\* Well-formed links: mega.nz/folder/<id>#<key>, optionally followed by
\* /folder/<sub>, and the legacy form.  "hZ" is an id no listing holds.
SubIds == {NodeIds[j] : j \in NodeIx} \cup {"hZ"}
GoodUrls ==
    {Url(TRUE, TRUE, "folder", "ok", TRUE, 4, <<"hFolder">>),
     Url(TRUE, TRUE, "legacyF", "ok", TRUE, 8, <<>>)}
    \cup {Url(TRUE, TRUE, "folder", "ok", TRUE, 4, <<"hFolder", sub>>) : sub \in SubIds}
\* Links of either form whose key decodes to a number of words that is
\* neither 4 nor >= 8, and to a length AES takes no key of (12, 20 and 28
\* bytes; a 24-byte key is left out: AES accepts it and decrypts to
\* unrelated bytes).
OddKeyUrls ==
    {Url(TRUE, TRUE, "folder", "ok", TRUE, kw, <<"hFolder">>) : kw \in {3, 5, 7}}
    \cup {Url(TRUE, TRUE, "legacyF", "ok", TRUE, 5, <<>>)}
\* Links the handler rejects.
BadUrls ==
    {Url(FALSE, FALSE, "none", "missing", FALSE, 0, <<>>),
     Url(TRUE, FALSE, "folder", "ok", TRUE, 4, <<"hFolder">>),
     Url(TRUE, TRUE, "none", "missing", FALSE, 0, <<>>),
     Url(TRUE, TRUE, "folder", "missing", FALSE, 0, <<"hFolder">>),
     Url(TRUE, TRUE, "folder", "missing", FALSE, 0, <<"hFolder", "hB">>),
     Url(TRUE, TRUE, "legacyF", "missing", FALSE, 0, <<>>),
     Url(TRUE, TRUE, "folder", "short", FALSE, 0, <<"hFolder">>),
     Url(TRUE, TRUE, "folder", "ok", FALSE, 0, <<"hFolder">>)}

FolderInit ==
    /\ \/ f_url \in GoodUrls /\ f_nodes \in Listings
       \/ f_url \in BadUrls /\ f_nodes = ChainListing
       \/ f_url \in OddKeyUrls /\ f_nodes = ChainListing
       \/ f_url \in GoodUrls /\ f_nodes \in CycleListings
       \/ f_url \in GoodUrls /\ f_nodes \in SharedNameListings
       \/ f_url \in GoodUrls /\ f_nodes = RepeatedIdListing
    /\ f_pc = "call" /\ f_shared = 0 /\ f_target = ""
    /\ f_by_h = <<>> /\ f_names = <<>> /\ f_allowed = AllowedNone /\ f_i = 0
    /\ f_cur = NoCur /\ f_item_idx = 0 /\ f_results = <<>> /\ f_events = <<>>
    /\ f_calls = <<>> /\ f_exc = NoExc

FRaise(exc, at) == f_exc' = Exc(exc, at) /\ f_pc' = "raised"

\* The URL check, _parse_folder_link, the shared key and the target
\* subfolder: no network call yet.
ParseLink ==
    /\ f_pc = "call"
    /\ IF ~(f_url.isStr /\ f_url.host)
       THEN FRaise("ValidationError", "parse") /\ UNCHANGED <<f_shared, f_target>>
       ELSE LET r == parse_folder_link(f_url) IN
            IF r.kind = "raise"
            THEN FRaise(r.exc, "parse") /\ UNCHANGED <<f_shared, f_target>>
            ELSE /\ f_shared' = 4 * r.words
                 /\ f_target' = IF Len(f_url.ids) > 1 THEN f_url.ids[Len(f_url.ids)] ELSE ""
                 /\ f_pc' = "list"
                 /\ UNCHANGED f_exc
    /\ UNCHANGED <<f_url, f_nodes, f_by_h, f_names, f_allowed, f_i, f_cur, f_item_idx,
                   f_results, f_events, f_calls>>

\* The listing request and everything up to the download loop: by_h, the
\* names loop, allowed.  The request may fail in transport ("neterr"),
\* answer an empty JSON list ("emptylist": `[0]` of it), a non-object
\* ("notdict") or an object without a node list ("nof").
ListFolder ==
    /\ f_pc = "list"
    /\ f_calls' = Append(f_calls, Call("f", "hFolder"))
    /\ \E ans \in {"neterr", "emptylist", "notdict", "nof", "ok"} :
         CASE ans = "neterr" ->
                /\ FRaise("NetworkError", "list")
                /\ UNCHANGED <<f_by_h, f_names, f_allowed, f_i>>
           [] ans = "emptylist" ->
                /\ FRaise("IndexError", "list")
                /\ UNCHANGED <<f_by_h, f_names, f_allowed, f_i>>
           [] ans \in {"notdict", "nof"} ->
                /\ FRaise("ValidationError", "list")
                /\ UNCHANGED <<f_by_h, f_names, f_allowed, f_i>>
           [] OTHER ->
                LET nm == BuildNames(f_nodes, f_shared) IN
                IF nm.kind = "raise"
                THEN /\ FRaise(nm.exc, "names")
                     /\ f_by_h' = ByH(f_nodes)
                     /\ UNCHANGED <<f_names, f_allowed, f_i>>
                ELSE /\ f_by_h' = ByH(f_nodes)
                     /\ f_names' = nm.names
                     /\ f_allowed' = Allowed(f_nodes, ByH(f_nodes), f_target)
                     /\ f_i' = 1
                     /\ f_pc' = "loop"
                     /\ UNCHANGED f_exc
    /\ UNCHANGED <<f_url, f_nodes, f_shared, f_target, f_cur, f_item_idx, f_results,
                   f_events>>

\* Whether the loop body reaches the key derivation for node n.
Downloadable(n) ==
    /\ n.t = 0
    /\ Eligible(f_allowed, n.h)
    /\ Truthy(node_key_bytes(n.k, f_shared))

\* A node the loop passes over: not a file, outside allowed, or without a
\* usable key.
SkipNode ==
    /\ f_pc = "loop"
    /\ f_i <= Len(f_nodes)
    /\ ~Downloadable(f_nodes[f_i])
    /\ f_i' = f_i + 1
    /\ UNCHANGED <<f_url, f_nodes, f_pc, f_shared, f_target, f_by_h, f_names, f_allowed,
                   f_cur, f_item_idx, f_results, f_events, f_calls, f_exc>>

\* The metadata request with a passed-over file taking an item index.
RequestFileCountsSkipped ==
    /\ f_pc = "loop"
    /\ f_i <= Len(f_nodes)
    /\ Downloadable(f_nodes[f_i])
    /\ LET n   == f_nodes[f_i]
           kb  == node_key_bytes(n.k, f_shared)
           dk  == derive_key_iv_from_k(bytes_to_a32(node_key_fold(EcbPlain(n.k.declen))))
           fp  == full_path(n.h, f_by_h, f_names, f_target)
           rel == RelPath(n.h, f_by_h, f_names, f_target)
       IN IF dk.kind = "raise"
          THEN FRaise(dk.exc, "derive") /\ UNCHANGED <<f_i, f_cur, f_events, f_calls, f_item_idx>>
          ELSE IF fp.diverges
          THEN f_pc' = "hang" /\ UNCHANGED <<f_i, f_cur, f_events, f_calls, f_exc, f_item_idx>>
          ELSE /\ f_calls' = Append(f_calls, Call("g", n.h))
               /\ \E ans \in {"neterr", "emptylist", "number", "lacks", "badsize", "ok"} :
                    CASE ans = "neterr" ->
                           FRaise("NetworkError", "g") /\ UNCHANGED <<f_i, f_cur, f_events, f_item_idx>>
                      [] ans = "emptylist" ->
                           FRaise("IndexError", "g") /\ UNCHANGED <<f_i, f_cur, f_events, f_item_idx>>
                      [] ans = "number" ->
                           FRaise("TypeError", "g") /\ UNCHANGED <<f_i, f_cur, f_events, f_item_idx>>
                      [] ans = "badsize" ->
                           FRaise("ValueError", "g") /\ UNCHANGED <<f_i, f_cur, f_events, f_item_idx>>
                      [] ans = "lacks" ->
                           /\ f_i' = f_i + 1 /\ f_item_idx' = f_item_idx + 1
                              /\ UNCHANGED <<f_pc, f_cur, f_events, f_exc>>
                      [] OTHER ->
                           /\ f_cur' = [h |-> n.h, rel |-> rel, key |-> dk.key,
                                         nonce |-> dk.iv]
                           /\ f_events' = Append(f_events,
                                                 FEvent("starting", rel, f_item_idx + 1))
                           /\ f_pc' = "transfer"
                           /\ UNCHANGED <<f_i, f_exc, f_item_idx>>
    /\ UNCHANGED <<f_url, f_nodes, f_shared, f_target, f_by_h, f_names, f_allowed,
                   f_results>>

\* A downloadable file node: the key derived, the path resolved, the
\* metadata requested.  The request may fail in transport, answer an empty
\* JSON list ("emptylist": `[0]` of it), a number such as an API error code
\* ("number": `"g" not in gi` on an int), an object that lacks the direct
\* URL or the size ("lacks": the node is passed over) or whose size is no
\* number ("badsize": int(gi["s"])), or succeed: the starting event is
\* emitted.
RequestFile ==
    /\ f_pc = "loop"
    /\ f_i <= Len(f_nodes)
    /\ Downloadable(f_nodes[f_i])
    /\ LET n   == f_nodes[f_i]
           kb  == node_key_bytes(n.k, f_shared)
           dk  == derive_key_iv_from_k(bytes_to_a32(node_key_fold(EcbPlain(n.k.declen))))
           fp  == full_path(n.h, f_by_h, f_names, f_target)
           rel == RelPath(n.h, f_by_h, f_names, f_target)
       IN IF dk.kind = "raise"
          THEN FRaise(dk.exc, "derive") /\ UNCHANGED <<f_i, f_cur, f_events, f_calls>>
          ELSE IF fp.diverges
          THEN f_pc' = "hang" /\ UNCHANGED <<f_i, f_cur, f_events, f_calls, f_exc>>
          ELSE /\ f_calls' = Append(f_calls, Call("g", n.h))
               /\ \E ans \in {"neterr", "emptylist", "number", "lacks", "badsize", "ok"} :
                    CASE ans = "neterr" ->
                           FRaise("NetworkError", "g") /\ UNCHANGED <<f_i, f_cur, f_events>>
                      [] ans = "emptylist" ->
                           FRaise("IndexError", "g") /\ UNCHANGED <<f_i, f_cur, f_events>>
                      [] ans = "number" ->
                           FRaise("TypeError", "g") /\ UNCHANGED <<f_i, f_cur, f_events>>
                      [] ans = "badsize" ->
                           FRaise("ValueError", "g") /\ UNCHANGED <<f_i, f_cur, f_events>>
                      [] ans = "lacks" ->
                           f_i' = f_i + 1 /\ UNCHANGED <<f_pc, f_cur, f_events, f_exc>>
                      [] OTHER ->
                           /\ f_cur' = [h |-> n.h, rel |-> rel, key |-> dk.key,
                                         nonce |-> dk.iv]
                           /\ f_events' = Append(f_events,
                                                 FEvent("starting", rel, f_item_idx + 1))
                           /\ f_pc' = "transfer"
                           /\ UNCHANGED <<f_i, f_exc>>
    /\ UNCHANGED <<f_url, f_nodes, f_shared, f_target, f_by_h, f_names, f_allowed,
                   f_item_idx, f_results>>

\* The media fetch with the result put in front of the earlier ones.
TransferFilePrepend ==
    /\ f_pc = "transfer"
    /\ f_calls' = Append(f_calls, Call("get", f_cur.h))
    /\ \/ /\ f_events' = f_events \o <<FEvent("downloading", f_cur.rel, f_item_idx + 1),
                                       FEvent("done", f_cur.rel, f_item_idx + 1)>>
          /\ f_results' = <<f_cur.rel>> \o f_results
          /\ f_item_idx' = f_item_idx + 1
          /\ f_i' = f_i + 1
          /\ f_cur' = NoCur
          /\ f_pc' = "loop"
          /\ UNCHANGED f_exc
       \/ /\ FRaise("NetworkError", "transfer")
          /\ UNCHANGED <<f_events, f_results, f_item_idx, f_i, f_cur>>
    /\ UNCHANGED <<f_url, f_nodes, f_shared, f_target, f_by_h, f_names, f_allowed>>

\* The media fetch with a transport failure noted and the loop going on.
TransferFileCarryOn ==
    /\ f_pc = "transfer"
    /\ f_calls' = Append(f_calls, Call("get", f_cur.h))
    /\ \/ /\ f_events' = f_events \o <<FEvent("downloading", f_cur.rel, f_item_idx + 1),
                                       FEvent("done", f_cur.rel, f_item_idx + 1)>>
          /\ f_results' = Append(f_results, f_cur.rel)
          /\ f_item_idx' = f_item_idx + 1
          /\ f_i' = f_i + 1
          /\ f_cur' = NoCur
          /\ f_pc' = "loop"
          /\ UNCHANGED f_exc
       \/ /\ f_exc' = Exc("NetworkError", "transfer")
          /\ f_i' = f_i + 1
          /\ f_cur' = NoCur
          /\ f_pc' = "loop"
          /\ UNCHANGED <<f_events, f_results, f_item_idx>>
    /\ UNCHANGED <<f_url, f_nodes, f_shared, f_target, f_by_h, f_names, f_allowed>>

\* The media fetch of the file in transfer, as a whole: it ends with the
\* done event and the result appended, or with NetworkError.
TransferFile ==
    /\ f_pc = "transfer"
    /\ f_calls' = Append(f_calls, Call("get", f_cur.h))
    /\ \/ /\ f_events' = f_events \o <<FEvent("downloading", f_cur.rel, f_item_idx + 1),
                                       FEvent("done", f_cur.rel, f_item_idx + 1)>>
          /\ f_results' = Append(f_results, f_cur.rel)
          /\ f_item_idx' = f_item_idx + 1
          /\ f_i' = f_i + 1
          /\ f_cur' = NoCur
          /\ f_pc' = "loop"
          /\ UNCHANGED f_exc
       \/ /\ FRaise("NetworkError", "transfer")
          /\ UNCHANGED <<f_events, f_results, f_item_idx, f_i, f_cur>>
    /\ UNCHANGED <<f_url, f_nodes, f_shared, f_target, f_by_h, f_names, f_allowed>>

\* After the last node: the batch summary event, and results returned.
FinishFolder ==
    /\ f_pc = "loop"
    /\ f_i > Len(f_nodes)
    /\ f_events' = Append(f_events, FEvent("done", <<>>, 0))
    /\ f_pc' = "returned"
    /\ UNCHANGED <<f_url, f_nodes, f_shared, f_target, f_by_h, f_names, f_allowed, f_i,
                   f_cur, f_item_idx, f_results, f_calls, f_exc>>

----------------------------------------------------------------------------
(* GoogleDriveManager.delete_file_after_delay                              *)

Attempts    == 3   \* attempts: int = 3
DeletePause == 2   \* time.sleep(2) between attempts

MaxDelay == 2      \* largest delay_seconds
MaxStart == 1      \* latest time of the call
MaxLate  == 1      \* most seconds the scheduler keeps a runnable task waiting
MaxWork  == 2      \* statements of the caller counted after the call

\* The clock never has to go beyond this.
MaxClock == MaxStart + MaxDelay + (Attempts - 1) * DeletePause + MaxLate

\* One executed delete request.
DeleteCall(at, ok) == [at |-> at, ok |-> ok]

DeleteIdle ==
    /\ d_delay = 0 /\ d_caller = "idle" /\ d_work = 0 /\ d_task = "none" /\ d_i = 0
    /\ d_now = 0 /\ d_start = 0 /\ d_wake = 0 /\ d_late = 0 /\ d_log = <<>>

\* A constructed manager: __init__ raises unless drive_service was built,
\* so _require_ready passes.
DeleteInit ==
    /\ d_delay \in 0..MaxDelay
    /\ d_caller = "call" /\ d_work = 0 /\ d_task = "none" /\ d_i = 0
    /\ d_now = 0 /\ d_start = 0 /\ d_wake = 0 /\ d_late = 0 /\ d_log = <<>>

\* Whether the task could run now: it is not inside a sleep that has time
\* left.
Runnable ==
    \/ d_task = "attempt"
    \/ d_task \in {"sleep", "pause"} /\ d_now >= d_wake

\* One second passes.
Tick ==
    /\ d_now < MaxClock
    /\ d_caller \in {"call", "returned"}
    /\ d_caller = "call" => d_now < MaxStart
    /\ Runnable => d_late < MaxLate
    /\ d_now' = d_now + 1
    /\ d_late' = IF Runnable THEN d_late + 1 ELSE d_late
    /\ UNCHANGED <<d_delay, d_caller, d_work, d_task, d_i, d_start, d_wake, d_log>>

\* The call: _require_ready, then the thread is started on task(), which
\* enters time.sleep(delay_seconds); the call returns.
StartDelete ==
    /\ d_caller = "call"
    /\ d_caller' = "returned"
    /\ d_task' = "sleep"
    /\ d_start' = d_now
    /\ d_wake' = d_now + d_delay
    /\ UNCHANGED <<d_delay, d_work, d_i, d_now, d_late, d_log>>

\* The caller goes on with its own statements.
CallerWork ==
    /\ d_caller = "returned"
    /\ d_work < MaxWork
    /\ d_work' = d_work + 1
    /\ UNCHANGED <<d_delay, d_caller, d_task, d_i, d_now, d_start, d_wake, d_late, d_log>>

\* The interpreter exits: a daemon thread still running is abandoned.
ProcessExit ==
    /\ d_caller = "returned"
    /\ d_caller' = "exited"
    /\ d_task' = IF d_task = "done" THEN "done" ELSE "killed"
    /\ UNCHANGED <<d_delay, d_work, d_i, d_now, d_start, d_wake, d_late, d_log>>

\* time.sleep(delay_seconds) returns; the for loop starts with i = 1.
WakeDelay ==
    /\ d_task = "sleep"
    /\ d_now >= d_wake
    /\ d_i' = 1
    /\ d_task' = "attempt"
    /\ UNCHANGED <<d_delay, d_caller, d_work, d_now, d_start, d_wake, d_late, d_log>>

\* The loop body without the `return` after a delete that succeeded.
DeleteAttemptNoReturn ==
    /\ d_task = "attempt"
    /\ \E ok \in BOOLEAN :
         /\ d_log' = Append(d_log, DeleteCall(d_now, ok))
         /\ IF d_i # Attempts
            THEN d_task' = "pause" /\ d_wake' = d_now + DeletePause
            ELSE d_task' = "done" /\ UNCHANGED d_wake
    /\ UNCHANGED <<d_delay, d_caller, d_work, d_i, d_now, d_start, d_late>>

\* One pass of the loop body: files().delete(...).execute() succeeds and
\* task() returns, or it raises and, unless this was the last attempt, the
\* task enters time.sleep(2); after the last attempt the loop ends.
DeleteAttempt ==
    /\ d_task = "attempt"
    /\ \E ok \in BOOLEAN :
         /\ d_log' = Append(d_log, DeleteCall(d_now, ok))
         /\ IF ok
            THEN d_task' = "done" /\ UNCHANGED d_wake
            ELSE IF d_i # Attempts
            THEN d_task' = "pause" /\ d_wake' = d_now + DeletePause
            ELSE d_task' = "done" /\ UNCHANGED d_wake
    /\ UNCHANGED <<d_delay, d_caller, d_work, d_i, d_now, d_start, d_late>>

\* time.sleep(2) returns; the loop goes to its next i.
WakePause ==
    /\ d_task = "pause"
    /\ d_now >= d_wake
    /\ d_i' = d_i + 1
    /\ d_task' = "attempt"
    /\ UNCHANGED <<d_delay, d_caller, d_work, d_now, d_start, d_wake, d_late, d_log>>

----------------------------------------------------------------------------
(* ConsoleProgress, the console renderer (utils/progress.py)               *)

W_NAME  == 70      \* self._W_NAME
W_PCT   == 7       \* self._W_PCT
W_BYTES == 23      \* self._W_BYTES

MaxUpdates == 2    \* calls of the renderer in one run

\* An Optional[int].
NoneInt   == [known |-> FALSE, val |-> 0]
SomeInt(v) == [known |-> TRUE, val |-> v]

\* A ProgressUpdate by the fields the renderer is given here: source is
\* "mega"; item_idx, item_count, speed_bps, eta_sec and message are None;
\* filename is "" for None.
ProgressUpdate(stage, downloaded_bytes, total_bytes, percent, filename) ==
    [stage |-> stage, downloaded_bytes |-> downloaded_bytes,
     total_bytes |-> total_bytes, percent |-> percent, filename |-> filename]

Stages == {"starting", "downloading", "done", "error"}
Updates ==
    {ProgressUpdate(st, dl, tot, pc, fn) :
        st \in Stages, dl \in {0, 2}, tot \in {NoneInt, SomeInt(0), SomeInt(4)},
        pc \in {PctNone, Pct(50, 1), Pct(100, 1), Pct(150, 1)}, fn \in {"", "f.txt"}}

\* pct_val after the two adjustments, as the text of the column.
console_pct(u) ==
    LET terminal == u.stage \in {"done", "error"}
        clamped  == IF ~terminal /\ AtLeast100(u.percent) THEN Pct(999, 10) ELSE u.percent
        forced   == IF terminal /\ (~clamped.known \/ ~AtLeast100(clamped))
                       /\ u.total_bytes.known
                    THEN Pct(100, 1) ELSE clamped
    IN IF forced.known THEN PctText(RoundDiv(10 * forced.num, forced.den)) ELSE NoPctText

\* A column of the line: its kind, its text by the values that make it, and
\* its width in characters.
Column(kind, a, b, width) == [kind |-> kind, a |-> a, b |-> b, width |-> width]

\* cols: "[mega]", the fitted filename, the percent, the bytes pair.
console_cols(u) ==
    LET terminal == u.stage \in {"done", "error"}
        src   == <<Column("src", 0, 0, 2 + 4)>>
        name  == IF u.filename # "" THEN <<Column("name", 0, 0, W_NAME)>> ELSE <<>>
        pt    == console_pct(u)
        pct   == IF pt.shown THEN <<Column("pct", pt.tenths, 0, W_PCT)>> ELSE <<>>
        show  == u.downloaded_bytes > 0 \/ u.total_bytes.known
        left  == IF terminal /\ u.total_bytes.known THEN u.total_bytes.val
                 ELSE u.downloaded_bytes
        right == IF u.total_bytes.known /\ u.total_bytes.val > 0 THEN u.total_bytes.val ELSE 0
        bytes == IF show THEN <<Column("bytes", left, right, W_BYTES)>> ELSE <<>>
    IN src \o name \o pct \o bytes

\* len(" | ".join(cols))
RECURSIVE WidthSum(_)
WidthSum(cols) == IF cols = <<>> THEN 0 ELSE cols[1].width + WidthSum(Tail(cols))
LineLen(cols) == WidthSum(cols) + 3 * (Len(cols) - 1)

NoWrite == [written |-> FALSE, cols |-> <<>>, pad |-> 0, nl |-> FALSE]
Write(cols, pad, nl) == [written |-> TRUE, cols |-> cols, pad |-> pad, nl |-> nl]

NoUpdate == ProgressUpdate("", 0, NoneInt, PctNone, "")

ProgressIdle ==
    /\ c_now = 0 /\ c_last_flush = 0 /\ c_last_len = 0 /\ c_n = 0
    /\ c_u = NoUpdate /\ c_out = NoWrite

\* ConsoleProgress(): _last_flush 0.0, _last_len 0; the clock is the epoch
\* time, far more than 50 ms from 0.
ProgressInit ==
    /\ c_now = 100 /\ c_last_flush = 0 /\ c_last_len = 0 /\ c_n = 0
    /\ c_u = NoUpdate /\ c_out = NoWrite

\* One call of the renderer, some time after the last one.
ConsoleCall ==
    /\ c_n < MaxUpdates
    /\ \E u \in Updates, dt \in ElapsedMs :
         LET now      == c_now + dt
             terminal == u.stage \in {"done", "error"}
             cols     == console_cols(u)
             pad      == Max(0, c_last_len - LineLen(cols))
         IN /\ c_now' = now
            /\ c_u' = u
            /\ c_n' = c_n + 1
            /\ IF (now - c_last_flush) < 50 /\ ~terminal
               THEN /\ c_out' = NoWrite
                    /\ UNCHANGED <<c_last_flush, c_last_len>>
               ELSE /\ c_last_flush' = now
                    /\ c_out' = Write(cols, pad, terminal)
                    /\ c_last_len' = IF terminal THEN 0 ELSE LineLen(cols)

----------------------------------------------------------------------------
(* GoogleDriveManager.delete_folder_after_delay: the background task       *)

ChildPasses    == 3   \* for _ in range(3)
FolderAttempts == 3   \* attempts: int = 3

MaxItems == 2         \* most items on one page of children
MaxPages == 2         \* most pages of one pass

\* The pages files().list may answer with: items with an id or without.
RECURSIVE SeqsUpTo(_, _)
SeqsUpTo(S, n) ==
    IF n = 0 THEN {<<>>}
    ELSE LET shorter == SeqsUpTo(S, n - 1)
         IN shorter \cup {Append(q, x) : q \in {r \in shorter : Len(r) = n - 1}, x \in S}
PageItems == SeqsUpTo({"id", "noid"}, MaxItems)

Req(op, ok) == [op |-> op, ok |-> ok]
NoReq == Req("", TRUE)

PurgeIdle ==
    /\ t_pc = "idle" /\ t_pass = 0 /\ t_page = 0 /\ t_items = <<>>
    /\ t_page_token = FALSE /\ t_any_deleted = FALSE /\ t_i = 0 /\ t_tries = 0
    /\ t_ok = FALSE /\ t_child_failed = FALSE /\ t_list_failed = FALSE /\ t_last = NoReq

\* The thread is started and sleeps for delay_seconds.
PurgeInit ==
    /\ t_pc = "sleep" /\ t_pass = 0 /\ t_page = 0 /\ t_items = <<>>
    /\ t_page_token = FALSE /\ t_any_deleted = FALSE /\ t_i = 0 /\ t_tries = 0
    /\ t_ok = FALSE /\ t_child_failed = FALSE /\ t_list_failed = FALSE /\ t_last = NoReq

\* time.sleep(delay_seconds) returns: the first pass begins.
PurgeWake ==
    /\ t_pc = "sleep"
    /\ t_pc' = "list" /\ t_pass' = 1
    /\ UNCHANGED <<t_page, t_items, t_page_token, t_any_deleted, t_i, t_tries, t_ok,
                   t_child_failed, t_list_failed, t_last>>

\* files().list(...).execute(): it raises, which the outer `except
\* Exception: pass` ends the task on, or answers a page.
ListChildren ==
    /\ t_pc = "list"
    /\ \/ /\ t_last' = Req("list", FALSE)
          /\ t_list_failed' = TRUE
          /\ t_pc' = "ended"
          /\ UNCHANGED <<t_page, t_items, t_page_token>>
       \/ \E items \in PageItems,
             more \in (IF t_page + 1 < MaxPages THEN BOOLEAN ELSE {FALSE}) :
            /\ t_last' = Req("list", TRUE)
            /\ t_items' = items
            /\ t_page_token' = more
            /\ t_page' = t_page + 1
            /\ t_pc' = "items"
            /\ UNCHANGED t_list_failed
    /\ UNCHANGED <<t_pass, t_any_deleted, t_i, t_tries, t_ok, t_child_failed>>

\* The next item with a failing delete left to end the task.
DeleteChildUnsuppressed ==
    /\ t_pc = "items" /\ t_items # <<>>
    /\ t_items' = Tail(t_items)
    /\ IF Head(t_items) = "noid"
       THEN UNCHANGED <<t_pc, t_any_deleted, t_child_failed, t_last>>
       ELSE \E ok \in BOOLEAN :
              /\ t_last' = Req("child", ok)
              /\ t_any_deleted' = (t_any_deleted \/ ok)
              /\ t_child_failed' = (t_child_failed \/ ~ok)
              /\ t_pc' = IF ok THEN t_pc ELSE "ended"
    /\ UNCHANGED <<t_pass, t_page, t_page_token, t_i, t_tries, t_ok, t_list_failed>>

\* The next item of the page: one without an id is passed over; the delete
\* of the others runs inside _suppress_exc, and any_deleted is set only
\* after a delete that did not raise.
DeleteChild ==
    /\ t_pc = "items" /\ t_items # <<>>
    /\ t_items' = Tail(t_items)
    /\ IF Head(t_items) = "noid"
       THEN UNCHANGED <<t_any_deleted, t_child_failed, t_last>>
       ELSE \E ok \in BOOLEAN :
              /\ t_last' = Req("child", ok)
              /\ t_any_deleted' = (t_any_deleted \/ ok)
              /\ t_child_failed' = (t_child_failed \/ ~ok)
    /\ UNCHANGED <<t_pc, t_pass, t_page, t_page_token, t_i, t_tries, t_ok, t_list_failed>>

\* The page is through: the next page, or the end of the pass; a pass that
\* deleted nothing, and the third pass, lead to the folder's own delete, any
\* other to the next pass after time.sleep(1).
EndPage ==
    /\ t_pc = "items" /\ t_items = <<>>
    /\ IF t_page_token
       THEN t_pc' = "list" /\ UNCHANGED <<t_pass, t_page, t_any_deleted, t_i>>
       ELSE IF t_any_deleted /\ t_pass < ChildPasses
       THEN /\ t_pc' = "list" /\ t_pass' = t_pass + 1
            /\ t_page' = 0 /\ t_any_deleted' = FALSE
            /\ UNCHANGED t_i
       ELSE /\ t_pc' = "folder" /\ t_i' = 1
            /\ UNCHANGED <<t_pass, t_page, t_any_deleted>>
    /\ UNCHANGED <<t_items, t_page_token, t_tries, t_ok, t_child_failed, t_list_failed,
                   t_last>>

\* One attempt to delete the folder: `return` on success, time.sleep(2) and
\* the next attempt after a failure, the end after the last.
DeleteFolder ==
    /\ t_pc = "folder"
    /\ \E ok \in BOOLEAN :
         /\ t_last' = Req("folder", ok)
         /\ t_tries' = t_tries + 1
         /\ t_ok' = ok
         /\ IF ok \/ t_i = FolderAttempts
            THEN t_pc' = "ended" /\ UNCHANGED t_i
            ELSE t_i' = t_i + 1 /\ UNCHANGED t_pc
    /\ UNCHANGED <<t_pass, t_page, t_items, t_page_token, t_any_deleted, t_child_failed,
                   t_list_failed>>

----------------------------------------------------------------------------
(* Specifications                                                          *)

KeySpecInit ==
    KeyInit /\ StreamIdle /\ FolderIdle /\ DeleteIdle /\ ProgressIdle /\ PurgeIdle
KeyNext == DeriveKeyIv /\ UNCHANGED <<streamVars, folderVars, deleteVars, progressVars, purgeVars>>
SpecKey == KeySpecInit /\ [][KeyNext]_vars

StreamSpecInit ==
    StreamInit /\ KeyIdle /\ FolderIdle /\ DeleteIdle /\ ProgressIdle /\ PurgeIdle
StreamNext ==
    \/ EmitStarting /\ UNCHANGED <<keyVars, folderVars, deleteVars, progressVars, purgeVars>>
    \/ OpenStream /\ UNCHANGED <<keyVars, folderVars, deleteVars, progressVars, purgeVars>>
    \/ RecvChunk /\ UNCHANGED <<keyVars, folderVars, deleteVars, progressVars, purgeVars>>
    \/ RecvEmptyChunk /\ UNCHANGED <<keyVars, folderVars, deleteVars, progressVars, purgeVars>>
    \/ FinishStream /\ UNCHANGED <<keyVars, folderVars, deleteVars, progressVars, purgeVars>>
    \/ TransportFailure /\ UNCHANGED <<keyVars, folderVars, deleteVars, progressVars, purgeVars>>
SpecStream == StreamSpecInit /\ [][StreamNext]_vars

FolderSpecInit ==
    FolderInit /\ KeyIdle /\ StreamIdle /\ DeleteIdle /\ ProgressIdle /\ PurgeIdle
FolderNext ==
    \/ ParseLink /\ UNCHANGED <<keyVars, streamVars, deleteVars, progressVars, purgeVars>>
    \/ ListFolder /\ UNCHANGED <<keyVars, streamVars, deleteVars, progressVars, purgeVars>>
    \/ SkipNode /\ UNCHANGED <<keyVars, streamVars, deleteVars, progressVars, purgeVars>>
    \/ RequestFile /\ UNCHANGED <<keyVars, streamVars, deleteVars, progressVars, purgeVars>>
    \/ TransferFile /\ UNCHANGED <<keyVars, streamVars, deleteVars, progressVars, purgeVars>>
    \/ FinishFolder /\ UNCHANGED <<keyVars, streamVars, deleteVars, progressVars, purgeVars>>
SpecFolder == FolderSpecInit /\ [][FolderNext]_vars

DeleteSpecInit ==
    DeleteInit /\ KeyIdle /\ StreamIdle /\ FolderIdle /\ ProgressIdle /\ PurgeIdle
DeleteNext ==
    \/ Tick /\ UNCHANGED <<keyVars, streamVars, folderVars, progressVars, purgeVars>>
    \/ StartDelete /\ UNCHANGED <<keyVars, streamVars, folderVars, progressVars, purgeVars>>
    \/ CallerWork /\ UNCHANGED <<keyVars, streamVars, folderVars, progressVars, purgeVars>>
    \/ ProcessExit /\ UNCHANGED <<keyVars, streamVars, folderVars, progressVars, purgeVars>>
    \/ WakeDelay /\ UNCHANGED <<keyVars, streamVars, folderVars, progressVars, purgeVars>>
    \/ DeleteAttempt /\ UNCHANGED <<keyVars, streamVars, folderVars, progressVars, purgeVars>>
    \/ WakePause /\ UNCHANGED <<keyVars, streamVars, folderVars, progressVars, purgeVars>>
\* The task's thread is scheduled while the interpreter lives, the call
\* returns, and time passes.
DeleteFairness ==
    /\ WF_vars(Tick /\ UNCHANGED <<keyVars, streamVars, folderVars, progressVars, purgeVars>>)
    /\ WF_vars(WakeDelay /\ UNCHANGED <<keyVars, streamVars, folderVars, progressVars, purgeVars>>)
    /\ WF_vars(DeleteAttempt /\ UNCHANGED <<keyVars, streamVars, folderVars, progressVars, purgeVars>>)
    /\ WF_vars(WakePause /\ UNCHANGED <<keyVars, streamVars, folderVars, progressVars, purgeVars>>)
SpecDelete == DeleteSpecInit /\ [][DeleteNext]_vars /\ DeleteFairness

ProgressSpecInit ==
    ProgressInit /\ KeyIdle /\ StreamIdle /\ FolderIdle /\ DeleteIdle /\ PurgeIdle
ProgressNext ==
    ConsoleCall /\ UNCHANGED <<keyVars, streamVars, folderVars, deleteVars, purgeVars>>
SpecProgress == ProgressSpecInit /\ [][ProgressNext]_vars

PurgeSpecInit ==
    PurgeInit /\ KeyIdle /\ StreamIdle /\ FolderIdle /\ DeleteIdle /\ ProgressIdle
PurgeNext ==
    \/ PurgeWake /\ UNCHANGED <<keyVars, streamVars, folderVars, deleteVars, progressVars>>
    \/ ListChildren /\ UNCHANGED <<keyVars, streamVars, folderVars, deleteVars, progressVars>>
    \/ DeleteChild /\ UNCHANGED <<keyVars, streamVars, folderVars, deleteVars, progressVars>>
    \/ EndPage /\ UNCHANGED <<keyVars, streamVars, folderVars, deleteVars, progressVars>>
    \/ DeleteFolder /\ UNCHANGED <<keyVars, streamVars, folderVars, deleteVars, progressVars>>
SpecPurge == PurgeSpecInit /\ [][PurgeNext]_vars

\* A run of either public operation: download_file's transfer or
\* download_folder.
TransfersInit == StreamSpecInit \/ FolderSpecInit
TransfersNext == StreamNext \/ FolderNext
SpecTransfers == TransfersInit /\ [][TransfersNext]_vars

----------------------------------------------------------------------------
(* Claims about key derivation (SpecKey)                                   *)

ValidWordCount(k) == Len(k) = 4 \/ Len(k) >= 8

\* C1: for key material whose word count is neither 4 nor >= 8 the
\* derivation fails with ValidationError, and with nothing else.
C1_BadCountRaisesValidationError ==
    (kpc = "done" /\ ~ValidWordCount(k_a32))
        => (kres.kind = "raise" /\ kres.exc = "ValidationError")

\* Bit b (0 = least significant) of the byte x.
BitOf(x, b) == (x \div (2 ^ b)) % 2

\* C2: 4 words give the words' bytes as the 16-byte key and eight zero bytes
\* as IV; 8 or more words give key = words 0..3 XOR words 4..7 (bit by bit)
\* and IV = the bytes of words 4 and 5.
C2_DerivationRule ==
    kpc = "done" =>
      /\ Len(k_a32) = 4 =>
           /\ kres.kind = "return"
           /\ Len(kres.key) = 16
           /\ \A w \in 1..4, d \in 1..4 : kres.key[4 * (w - 1) + d] = k_a32[w][d]
           /\ kres.iv = <<0, 0, 0, 0, 0, 0, 0, 0>>
      /\ Len(k_a32) >= 8 =>
           /\ kres.kind = "return"
           /\ Len(kres.key) = 16
           /\ \A w \in 1..4, d \in 1..4, b \in 0..7 :
                BitOf(kres.key[4 * (w - 1) + d], b)
                    = (IF BitOf(k_a32[w][d], b) = BitOf(k_a32[w + 4][d], b) THEN 0 ELSE 1)
           /\ Len(kres.iv) = 8
           /\ \A d \in 1..4 : kres.iv[d] = k_a32[5][d] /\ kres.iv[4 + d] = k_a32[6][d]

C2_Witness ==
    /\ kpc = "done"
    /\ Len(k_a32) = 9
    /\ k_a32[1] # k_a32[5]
    /\ k_a32[5] # k_a32[6]
    /\ kres.kind = "return"

----------------------------------------------------------------------------
(* Claims about one transfer (SpecStream)                                  *)

\* The body decrypted in one piece from keystream position 0.
WholeBodyPlain(key, nonce, body) ==
    [i \in 1..Len(body) |-> Xor(body[i], KeystreamByte(key, nonce, i - 1))]

\* C3: however the body is split into chunks (empty ones included), the bytes
\* written are those of the body decrypted in one piece, and the cipher's
\* keystream position equals the number of bytes decrypted and written.
C3_ChunkingIndependent ==
    s_pc \in {"loop", "returned", "raised"} =>
      /\ s_file.data = SubSeq(WholeBodyPlain(s_key, s_iv, s_stream), 1, s_off)
      /\ s_cpos = Len(s_file.data)
      /\ s_downloaded = Len(s_file.data)

C3_Witness ==
    /\ s_pc = "returned"
    /\ Len(s_file.data) = 4
    /\ s_empty > 0
    /\ Len(s_events) = 5
    /\ s_events[2].downloaded = 1

\* C10: across the events of one transfer the reported downloaded_bytes
\* never decreases.
C10_DownloadedNeverDecreases ==
    \A i, j \in 1..Len(s_events) :
        i < j => s_events[i].downloaded <= s_events[j].downloaded

\* C11: when the total size is unknown (declared size 0), the percent of
\* every event of the transfer is None: starting, downloading and done.
C11_PercentNoneWhenTotalUnknown ==
    s_size = 0 => \A i \in 1..Len(s_events) : ~s_events[i].percent.known

\* C13: the starting event comes before the media fetch is opened and
\* before any byte is written, every downloading event comes after it, and
\* the single done event is the last event of the transfer, emitted when the
\* operation returns, with downloaded equal to total.
C13_EventOrder ==
    /\ s_events = <<>> => s_pc = "meta" /\ ~s_file.exists /\ s_off = 0
    /\ s_events # <<>> =>
         /\ s_events[1].stage = "starting"
         /\ \A i \in 2..Len(s_events) : s_events[i].stage \in {"downloading", "done"}
    /\ \A i \in 1..Len(s_events) :
         s_events[i].stage = "done" =>
           /\ i = Len(s_events)
           /\ s_pc = "returned"
           /\ s_events[i].downloaded = s_events[i].total
    /\ s_pc = "returned" => s_events[Len(s_events)].stage = "done"

C13_Witness ==
    /\ s_pc = "returned"
    /\ s_size = 3
    /\ Len(s_events) = 4
    /\ s_events[2].stage = "downloading" /\ s_events[3].stage = "downloading"
    /\ s_events[4].downloaded = 3

\* seq1 is a prefix of seq2.
IsPrefix(seq1, seq2) ==
    Len(seq1) <= Len(seq2) /\ SubSeq(seq2, 1, Len(seq1)) = seq1

\* C14: a transport failure at any point of the media fetch ends the
\* download with NetworkError and leaves the destination file as it was,
\* holding the bytes written so far; no step deletes or truncates the file.
C14_FailureLeavesPartialFile ==
    /\ [](s_pc = "raised" =>
            /\ s_exc = "NetworkError"
            /\ s_file.data = SubSeq(WholeBodyPlain(s_key, s_iv, s_stream), 1, s_off)
            /\ s_off > 0 => s_file.exists)
    /\ [](s_pc \in {"connect", "loop"} => ENABLED TransportFailure)
    /\ [][/\ s_pc' = "raised" => s_file' = s_file
          /\ s_file.exists =>
               s_file'.exists /\ IsPrefix(s_file.data, s_file'.data)]_vars

C14_Witness ==
    /\ s_pc = "raised"
    /\ s_exc = "NetworkError"
    /\ s_file.exists
    /\ Len(s_file.data) = 3
    /\ Len(s_stream) = 4

\* C15: a progress callback, structured or line, that raises on an event
\* never aborts or alters the transfer: the operation never ends with the
\* callback's exception, the chunks that remain can still be received, and
\* when it returns the file holds the whole decrypted body and the done
\* event was emitted, as without a raising callback.
C15_CallbackFailuresSwallowed ==
    /\ s_exc \in {"", "NetworkError"}
    /\ s_pc = "raised" <=> s_exc = "NetworkError"
    /\ s_pc = "loop" /\ s_off < Len(s_stream) => ENABLED RecvChunk
    /\ s_pc = "loop" /\ s_off = Len(s_stream) => ENABLED FinishStream
    /\ s_pc \in {"loop", "returned"} =>
         s_file.data = SubSeq(WholeBodyPlain(s_key, s_iv, s_stream), 1, s_off)
    /\ s_pc = "returned" =>
         /\ s_file.data = WholeBodyPlain(s_key, s_iv, s_stream)
         /\ s_events[Len(s_events)].stage = "done"

C15_Witness ==
    /\ s_swallowed
    /\ s_pc = "returned"
    /\ Len(s_file.data) = 4
    /\ Len(s_events) = 6

\* C18: no two consecutive downloading events of a transfer are less than
\* 50 ms apart, however many chunks arrive in that time.
C18_DownloadingEventsRateLimited ==
    \A i \in 2..Len(s_events) :
        s_events[i].stage = "downloading" /\ s_events[i - 1].stage = "downloading"
          => s_events[i].dt >= 50

\* The stages that end a task.
TerminalStages == {"done", "error"}

\* C21: the line the formatter makes of an event of a non-terminal stage
\* whose percent is >= 100 shows 99.9%, and the line of an event of a
\* terminal stage (total known) shows exactly 100.0%.
C21_PercentClampedByStage ==
    \A i \in 1..Len(s_events) :
       LET e    == s_events[i]
           line == format_progress_line(e.percent, e.downloaded, e.total)
       IN /\ (e.stage \notin TerminalStages /\ AtLeast100(e.percent))
                => line.pct = PctText(999)
          /\ e.stage \in TerminalStages => line.pct = PctText(1000)

----------------------------------------------------------------------------
(* Claims about download_folder (SpecFolder)                               *)

TargetGiven == Len(f_url.ids) > 1
GivenTarget == f_url.ids[Len(f_url.ids)]
ListedIds   == {f_nodes[i].h : i \in 1..Len(f_nodes)}

\* The paths resolved so far: that of the file in transfer, and those
\* returned.
ResolvedPaths ==
    (IF f_cur.h # "" THEN {f_cur.rel} ELSE {})
    \cup {f_results[j] : j \in 1..Len(f_results)}

\* C4 as stated: in the listing root -> A -> B -> f.txt with every name
\* resolvable and no target subfolder, f.txt resolves to A/B/f.txt.
C4_ChainPathBelowRoot ==
    (f_nodes = ChainListing /\ f_url \in GoodUrls /\ ~TargetGiven)
        => \A r \in ResolvedPaths : r = <<"A", "B", "f.txt">>

\* C4 amended: the path holds the name of every ancestor folder of the
\* listing, the root's included, outermost first: root/A/B/f.txt.
C4_ChainPathFromRoot ==
    (f_nodes = ChainListing /\ f_url \in GoodUrls /\ ~TargetGiven)
        => \A r \in ResolvedPaths : r = <<"root", "A", "B", "f.txt">>

C4_Witness ==
    /\ f_nodes = ChainListing
    /\ ~TargetGiven
    /\ f_pc = "returned"
    /\ f_results = << <<"root", "A", "B", "f.txt">> >>

\* x is t or lies below t along parent pointers (at most `fuel` steps up).
RECURSIVE IsBelow(_, _, _)
IsBelow(x, t, fuel) ==
    \/ x = t
    \/ /\ fuel > 0
       /\ \E i \in 1..Len(f_nodes) :
            f_nodes[i].h = x /\ f_nodes[i].p # "" /\ IsBelow(f_nodes[i].p, t, fuel - 1)

\* The file ids a metadata request or a media fetch was made for.
RequestedIds == {f_calls[j].h : j \in {q \in 1..Len(f_calls) : f_calls[q].op \in {"g", "get"}}}

\* C5 as stated: with a target subfolder id given, only files among the
\* target's descendants are ever requested.
C5_ScopedWheneverTargetGiven ==
    TargetGiven => \A h \in RequestedIds : IsBelow(h, GivenTarget, Len(f_nodes))

\* C5 amended: with a target subfolder id given that is an id of the
\* listing, only files among the target's descendants are ever requested.
C5_ScopedWhenTargetListed ==
    (TargetGiven /\ GivenTarget \in ListedIds)
        => \A h \in RequestedIds : IsBelow(h, GivenTarget, Len(f_nodes))

C5_Witness ==
    /\ TargetGiven /\ GivenTarget = "hA"
    /\ f_pc = "returned"
    /\ Len(f_results) = 1
    /\ \E i \in 1..Len(f_nodes) :
         /\ f_nodes[i].t = 0
         /\ f_nodes[i].k = GoodKey(0)
         /\ ~IsBelow(f_nodes[i].h, "hA", Len(f_nodes))

\* C6 as stated: in the listing root -> A -> B -> f.txt with target
\* subfolder B, f.txt resolves to f.txt.
C6_ScopedChainPathIsBare ==
    (f_nodes = ChainListing /\ f_url \in GoodUrls /\ TargetGiven /\ GivenTarget = "hB")
        => \A r \in ResolvedPaths : r = <<"f.txt">>

\* C6 amended: it resolves to B/f.txt: the path starts at the target's own
\* name and holds no segment above it.
C6_ScopedChainPathFromTarget ==
    (f_nodes = ChainListing /\ f_url \in GoodUrls /\ TargetGiven /\ GivenTarget = "hB")
        => \A r \in ResolvedPaths : r = <<"B", "f.txt">>

C6_Witness ==
    /\ f_nodes = ChainListing
    /\ TargetGiven /\ GivenTarget = "hB"
    /\ f_pc = "returned"
    /\ f_results = << <<"B", "f.txt">> >>

\* A per-node key blob that decrypts: a string, base64, a positive whole
\* number of AES blocks.
KeyDecrypts(n) ==
    n.k.isStr /\ n.k.b64ok /\ n.k.declen > 0 /\ (n.k.declen % 16) = 0

\* An attribute blob on which the decode or the block decryption fails.
AttrBreaks(n) ==
    KeyDecrypts(n) /\ n.a.isStr /\ (~n.a.b64ok \/ (n.a.declen % 16) # 0)

\* Whether file node h is inside the scope of the request.
InScope(h) ==
    (TargetGiven /\ GivenTarget \in ListedIds) => IsBelow(h, GivenTarget, Len(f_nodes))

\* The nodes the download loop is done with.
Passed(i) ==
    \/ f_pc \in {"loop", "returned"} /\ i < f_i
    \/ f_pc = "transfer" /\ i <= f_i

\* C7: a file node whose key blob does not decrypt never makes the call
\* raise and is never requested or returned, and every file node in scope
\* whose key decrypts is still requested; what is returned is one path per
\* completed fetch.
C7_KeyFailuresIsolated ==
    f_url \in GoodUrls =>
      /\ f_exc.at = "names" => \E i \in 1..Len(f_nodes) : AttrBreaks(f_nodes[i])
      /\ f_exc.at \in {"", "list", "names", "g", "transfer"}
      /\ \A i \in 1..Len(f_nodes) :
           ~KeyDecrypts(f_nodes[i]) => f_nodes[i].h \notin RequestedIds
      /\ \A i \in 1..Len(f_nodes) :
           (Passed(i) /\ f_nodes[i].t = 0 /\ KeyDecrypts(f_nodes[i]) /\ InScope(f_nodes[i].h))
               => \E q \in 1..Len(f_calls) : f_calls[q] = Call("g", f_nodes[i].h)
      /\ f_pc = "returned" =>
           Len(f_results) = Cardinality({q \in 1..Len(f_calls) : f_calls[q].op = "get"})

C7_Witness ==
    /\ f_pc = "returned"
    /\ Len(f_results) = 2
    /\ \E i \in 1..Len(f_nodes) :
         /\ f_nodes[i].t = 0
         /\ f_nodes[i].k = KeyBlob(TRUE, TRUE, 8)
         /\ \E j \in 1..Len(f_nodes) : j > i /\ f_nodes[j].t = 0 /\ f_nodes[j].p = f_nodes[i].p

\* C8: _decrypt_attrs returns a mapping for every blob and never raises, so
\* no attribute blob makes download_folder fail.
C8_AttrsNeverRaise ==
    /\ f_exc.at # "names"
    /\ f_pc \in {"loop", "transfer", "returned"} =>
         \A i \in 1..Len(f_nodes) :
            (KeyDecrypts(f_nodes[i]) /\ f_nodes[i].a.isStr) =>
                /\ decrypt_attrs(f_nodes[i].a, 16).kind = "return"
                /\ decrypt_attrs(f_nodes[i].a, 16).val.isDict

\* C9: a folder link without its key segment ends in ValidationError, and no
\* network call is made.
C9_MissingKeyRejectedBeforeNetwork ==
    (f_url.isStr /\ f_url.host /\ f_url.keySeg = "missing") =>
      /\ f_calls = <<>>
      /\ f_pc \in {"call", "raised"}
      /\ f_pc = "raised" => f_exc = Exc("ValidationError", "parse")

C9_Witness ==
    /\ f_url.isStr /\ f_url.host /\ f_url.form = "folder" /\ f_url.keySeg = "missing"
    /\ f_pc = "raised"

\* The error kinds of the downloader's taxonomy.
TypedErrors == {"ValidationError", "NetworkError", "ProcessError"}

\* C16: download_folder ends by returning its results or by raising one of
\* the typed errors, for every URL and every answer of the metadata API; it
\* never raises an untyped exception.
C16_OnlyTypedErrors ==
    /\ f_pc = "raised" => f_exc.exc \in TypedErrors
    /\ f_pc = "returned" => f_exc = NoExc

\* C17: download_folder, given a link whose key decodes to a word count that
\* is neither 4 nor >= 8, raises ValidationError before any network call,
\* and neither lists the folder nor returns a result.
C17_BadWordCountRejected ==
    (f_url.isStr /\ f_url.host /\ LinkMatches(f_url) /\ f_url.b64ok
        /\ f_url.kwords # 4 /\ f_url.kwords < 8) =>
      /\ f_calls = <<>>
      /\ f_pc \in {"call", "raised"}
      /\ f_pc = "raised" => f_exc.exc = "ValidationError"

\* The position in the listing of the node with id h.
ListingIndex(h) == CHOOSE i \in 1..Len(f_nodes) : f_nodes[i].h = h

\* The calls of kind op, in the order they were made.
CallsOf(op) == SelectSeq(f_calls, LAMBDA c : c.op = op)

\* The events of the files (the batch summary has no item_idx).
FileEvents == SelectSeq(f_events, LAMBDA e : e.item_idx # 0)

\* C19: download_folder processes the eligible files one at a time in
\* listing order: metadata requests and fetches follow the order of the
\* listing, the returned paths are those of the fetched nodes in that order,
\* the events of a file form one block from starting to done, and the next
\* metadata request or starting event comes only after the done event of
\* the file before.
C19_OneFileAtATimeInListingOrder ==
    /\ [](/\ \A op \in {"g", "get"} :
               \A i, j \in 1..Len(CallsOf(op)) :
                  i < j => ListingIndex(CallsOf(op)[i].h) < ListingIndex(CallsOf(op)[j].h)
          /\ Len(f_results) <= Len(CallsOf("get"))
          /\ \A k \in 1..Len(f_results) :
               f_results[k] = RelPath(CallsOf("get")[k].h, f_by_h, f_names, f_target)
          /\ \A i \in 1..Len(FileEvents) :
               /\ FileEvents[i].item_idx = ((i - 1) \div 3) + 1
               /\ FileEvents[i].stage = <<"starting", "downloading", "done">>[((i - 1) % 3) + 1]
               /\ (i + 2) \div 3 <= Len(f_results) =>
                    FileEvents[i].filename = f_results[(i + 2) \div 3]
          /\ f_pc \in {"loop", "returned"} => Len(FileEvents) = 3 * Len(f_results))
    /\ [][(Len(f_calls') > Len(f_calls) /\ f_calls'[Len(f_calls')].op = "g")
            => (f_events = <<>> \/ f_events[Len(f_events)].stage = "done")]_vars

C19_Witness ==
    /\ f_pc = "returned"
    /\ Len(f_results) = 2
    /\ f_results[1] # f_results[2]
    /\ Len(CallsOf("g")) = 3
    /\ Len(FileEvents) = 6

\* names with every listed id that has no resolved name standing for
\* itself.
NamesOrIds == [x \in DOMAIN f_by_h |-> NamesGet(f_names, x, x)]

\* C23: in the resolved path of a file every node without a resolvable
\* name is represented by its id, as the final file segment and as an
\* ancestor folder segment alike.
C23_IdStandsForMissingName ==
    f_pc = "transfer" =>
      f_cur.rel = RelPath(f_cur.h, f_by_h, NamesOrIds, f_target)

\* C24: in download_folder the cipher of every file has the all-zero
\* 8-byte nonce and a 16-byte key, the folded node key, also for a node key
\* that decrypts to 32 bytes; download_file takes the nonce of an 8-word
\* link key from its words 4 and 5.
C24_FolderCipherNonceIsZero ==
    f_pc = "transfer" =>
      /\ f_cur.nonce = Zeros(8)
      /\ f_cur.key = node_key_fold(EcbPlain(f_by_h[f_cur.h].k.declen))
      /\ Len(f_cur.key) = 16
      /\ \A k \in LinkKeys :
           Len(k) = 8 => derive_key_iv_from_k(k).iv = a32_to_bytes(PySlice(k, 4, 6))
      /\ \E k \in LinkKeys : derive_key_iv_from_k(k).iv # Zeros(8)

C24_Witness ==
    /\ f_pc = "transfer"
    /\ f_by_h[f_cur.h].k.declen = 32
    /\ a32_to_bytes(PySlice(bytes_to_a32(EcbPlain(32)), 4, 6)) # Zeros(8)
    /\ f_cur.nonce = Zeros(8)

C26_UnlistedTargetMeansNoScoping ==
    (TargetGiven /\ GivenTarget \notin ListedIds
        /\ f_pc \in {"loop", "transfer", "returned"}) =>
      /\ f_target = GivenTarget
      /\ f_allowed = AllowedNone
      /\ \A i \in 1..Len(f_nodes) :
           (Passed(i) /\ f_nodes[i].t = 0 /\ KeyDecrypts(f_nodes[i]))
               => \E q \in 1..Len(f_calls) : f_calls[q] = Call("g", f_nodes[i].h)
      /\ f_pc = "transfer" => f_cur.rel = RelPath(f_cur.h, f_by_h, f_names, "")
      /\ \A k \in 1..Len(f_results) :
           f_results[k] = RelPath(CallsOf("get")[k].h, f_by_h, f_names, "")

C26_Witness ==
    /\ TargetGiven /\ GivenTarget \notin ListedIds
    /\ f_pc = "returned"
    /\ Len(f_results) = 2
    /\ \E k \in 1..2 : Len(f_results[k]) = 3

\* rel before the trim: full_path(h) / names.get(h, h).
Untrimmed(h) == Append(full_path(h, f_by_h, f_names, f_target).parts, NamesGet(f_names, h, h))

TargetIsListedFolder == f_target \in DOMAIN f_by_h /\ f_by_h[f_target].t = 1

\* C27: when the target subfolder is a folder node of the listing, the
\* name-based trim leaves every resolved path as the id-bounded ascent
\* produced it, also when another folder or the file carries the target's
\* name.
C27_TrimNeverChangesPath ==
    (f_pc = "transfer" /\ TargetIsListedFolder) => f_cur.rel = Untrimmed(f_cur.h)

DistinctIds == \A i, j \in 1..Len(f_nodes) : f_nodes[i].h = f_nodes[j].h => i = j

\* C27, amended: the trim leaves the path unchanged when, besides, no id
\* occurs twice in the listing.
C27_TrimKeepsPathOfDistinctIds ==
    (f_pc = "transfer" /\ TargetIsListedFolder /\ DistinctIds)
        => f_cur.rel = Untrimmed(f_cur.h)

\* The target's name is the first segment and occurs again further down.
C27_Witness ==
    /\ f_pc = "transfer" /\ TargetIsListedFolder /\ DistinctIds
    /\ Len(f_cur.rel) = 3
    /\ \A i \in 1..3 : f_cur.rel[i] = NamesGet(f_names, f_target, "")

\* C28: a transport failure while the k-th file is fetched ends the whole
\* call: NetworkError leaves download_folder, which does not return (the
\* k-1 paths collected stay behind in it), the failed fetch is its last
\* network call and its events end with the starting event of that file,
\* with no batch summary; nothing follows.
C28_TransportFailureAbortsBatch ==
    /\ [](f_exc.at = "transfer" =>
            /\ f_pc = "raised" /\ f_exc.exc = "NetworkError"
            /\ f_calls[Len(f_calls)] = Call("get", f_cur.h)
            /\ Len(CallsOf("get")) = Len(f_results) + 1
            /\ f_events[Len(f_events)] = FEvent("starting", f_cur.rel, Len(f_results) + 1)
            /\ \A i \in 1..Len(f_events) : f_events[i].item_idx # 0)
    /\ [][f_pc = "raised" => UNCHANGED folderVars]_vars

\* The second file of a batch fails after the first was downloaded.
C28_Witness ==
    /\ f_exc = Exc("NetworkError", "transfer")
    /\ Len(f_results) = 1
    /\ \E i \in (f_i + 1)..Len(f_nodes) : Downloadable(f_nodes[i])

\* The metadata of the file with id h was requested and the loop went on
\* without fetching it.
PassedOver(h) ==
    /\ \E q \in 1..Len(f_calls) : f_calls[q] = Call("g", h)
    /\ \A q \in 1..Len(f_calls) : f_calls[q] # Call("get", h)
    /\ f_cur.h # h

\* C29: a file whose metadata answer lacks the direct URL or the size is
\* passed over in silence: the step changes no event, no result, no item
\* index and raises nothing, and the item indexes of the files downloaded
\* run 1, 2, ... without a gap.
C29_IncompleteMetadataSkippedSilently ==
    /\ [][(Len(f_calls') > Len(f_calls) /\ f_calls'[Len(f_calls')].op = "g" /\ f_pc' = "loop")
            => /\ UNCHANGED <<f_events, f_results, f_item_idx, f_exc, f_cur>>
               /\ f_i' = f_i + 1]_vars
    /\ [](f_pc \in {"loop", "transfer", "returned"} =>
            /\ f_exc = NoExc
            /\ f_item_idx = Len(f_results)
            /\ Len(f_results) = Len(CallsOf("get"))
            /\ \A i \in 1..Len(FileEvents) :
                 /\ FileEvents[i].item_idx = ((i - 1) \div 3) + 1
                 /\ FileEvents[i].item_idx <= Len(f_results) + 1
                 /\ \A n \in 1..Len(f_nodes) :
                      PassedOver(f_nodes[n].h) =>
                        FileEvents[i].filename # RelPath(f_nodes[n].h, f_by_h, f_names, f_target))

\* The first file was passed over and the second downloaded as item 1.
C29_Witness ==
    /\ f_pc = "returned"
    /\ Len(CallsOf("g")) = 2 /\ Len(CallsOf("get")) = 1
    /\ PassedOver(CallsOf("g")[1].h)
    /\ f_results = <<RelPath(CallsOf("g")[2].h, f_by_h, f_names, f_target)>>
    /\ \E i \in 1..Len(f_events) : f_events[i].stage = "done" /\ f_events[i].item_idx = 1

----------------------------------------------------------------------------
(* Claims about both operations (SpecTransfers)                            *)

\* The events of stage `done` in a sequence of events.
DoneEvents(evs) == {i \in 1..Len(evs) : evs[i].stage = "done"}

\* The done events of download_folder that belong to a file (they carry its
\* name) and the batch summary (filename None).
FileDone  == {i \in DoneEvents(f_events) : f_events[i].filename # <<>>}
BatchDone == {i \in DoneEvents(f_events) : f_events[i].filename = <<>>}

\* The media fetches of download_folder that ended without a failure.
CompletedFetches ==
    Cardinality({i \in 1..Len(f_calls) : f_calls[i].op = "get"})
      - (IF f_pc = "raised" /\ f_exc.at = "transfer" THEN 1 ELSE 0)

\* C12 (as stated): the number of done events emitted equals the number of
\* files whose transfer completed successfully, in download_file and in
\* download_folder.
C12_DoneCountEqualsCompletedFiles ==
    /\ Cardinality(DoneEvents(s_events)) = (IF s_pc = "returned" THEN 1 ELSE 0)
    /\ Cardinality(DoneEvents(f_events)) = CompletedFetches

\* C12 (amended): exactly one done event per successfully transferred file
\* and none for a failed transfer, counting the done events that carry a
\* filename; download_folder adds one batch summary done event, without a
\* filename, exactly when it returns.
C12_OneFileDonePerCompletedFile ==
    /\ Cardinality(DoneEvents(s_events)) = (IF s_pc = "returned" THEN 1 ELSE 0)
    /\ Cardinality(FileDone) = CompletedFetches
    /\ Cardinality(FileDone) = Len(f_results)
    /\ \A i, j \in FileDone : f_events[i].filename = f_events[j].filename => i = j
    /\ Cardinality(BatchDone) = (IF f_pc = "returned" THEN 1 ELSE 0)

C12_Witness ==
    /\ f_pc = "returned"
    /\ Len(f_results) = 2
    /\ Cardinality(FileDone) = 2
    /\ Cardinality(BatchDone) = 1
    /\ Cardinality({i \in 1..Len(f_calls) : f_calls[i].op = "g"}) = 3

----------------------------------------------------------------------------
(* Claims about delayed deletion (SpecDelete)                              *)

\* The background task has ended: it returned, or the interpreter exited.
TaskEnded == d_task \in {"done", "killed"}

\* C20: delete_file_after_delay returns to the caller at once, while the
\* task still sleeps; the task issues no delete request before the delay
\* has elapsed, makes at most 3 attempts with at least the fixed pause
\* between two of them and none after the first success, ends only after a
\* success or the third attempt, always terminates, and leaves the caller
\* running whatever the outcome of the requests.
C20_DelayedDeleteFireAndForget ==
    /\ [](/\ d_task # "none" => d_caller \in {"returned", "exited"}
          /\ \A q \in 1..Len(d_log) : d_log[q].at >= d_start + d_delay
          /\ Len(d_log) <= Attempts
          /\ \A q \in 1..(Len(d_log) - 1) :
               /\ ~d_log[q].ok
               /\ d_log[q + 1].at >= d_log[q].at + DeletePause
          /\ d_task = "done" =>
               /\ d_log # <<>>
               /\ d_log[Len(d_log)].ok \/ Len(d_log) = Attempts
          /\ d_caller = "returned" /\ d_work < MaxWork => ENABLED CallerWork)
    /\ [][d_caller = "call" /\ d_caller' # "call" =>
             d_caller' = "returned" /\ d_task' = "sleep" /\ d_log' = <<>>
                /\ d_now' = d_now]_vars
    /\ (d_task # "none") ~> TaskEnded

C20_Witness ==
    /\ d_task = "done"
    /\ d_caller = "returned"
    /\ d_delay = 2
    /\ Len(d_log) = 3
    /\ d_log[3].ok
    /\ d_work = 1

----------------------------------------------------------------------------
(* Claims about the console renderer (SpecProgress)                        *)

\* C22: every rendered update whose stage is done or whose percent is
\* >= 100 ends its line with a newline, and every other rendered update is
\* written with a carriage return and no newline.
C22_NewlineWhenTaskCompletes ==
    c_out.written => (c_out.nl <=> (c_u.stage = "done" \/ AtLeast100(c_u.percent)))

----------------------------------------------------------------------------
(* Claims about delete_folder_after_delay (SpecPurge)                      *)

\* C30: in the task of delete_folder_after_delay a child delete that fails
\* leaves the task running with any_deleted as it was; a listing that fails
\* ends the task with no delete of the folder attempted; otherwise the task
\* ends only on the folder's delete, attempted at most 3 times and not again
\* after a success.
C30_FolderTaskFailureHandling ==
    /\ [](/\ t_list_failed =>
               (t_pc = "ended" /\ t_tries = 0 /\ t_last = Req("list", FALSE))
          /\ t_tries <= FolderAttempts
          /\ t_ok => (t_pc = "ended" /\ t_last = Req("folder", TRUE))
          /\ (t_pc = "ended" /\ ~t_list_failed) =>
               /\ t_last.op = "folder"
               /\ t_ok \/ t_tries = FolderAttempts)
    /\ [][(t_pc = "items" /\ t_items # <<>> /\ t_last' = Req("child", FALSE)
             /\ t_items' = Tail(t_items))
            => (t_pc' = "items" /\ t_any_deleted' = t_any_deleted)]_vars
    /\ [][t_pc = "ended" => UNCHANGED purgeVars]_vars

\* A child's delete failed, and the folder went at the second attempt.
C30_Witness ==
    /\ t_pc = "ended" /\ t_child_failed /\ ~t_list_failed
    /\ t_ok /\ t_tries = 2

====
